---- MODULE Spec2Model ----
(***************************************************************************)
(* Model of the intl-lens translation indexing and key-resolution engine.  *)
(*                                                                         *)
(*   SpecStore    the Translation Index (crates/i18n-lsp/src/i18n/store.rs)*)
(*                scan_and_load, reload and the read-only queries, with a  *)
(*                reader running alongside the loader                      *)
(*                                                                         *)
(*   SpecFlatten  the Flattener (crates/intl-lens/src/i18n/parser.rs)      *)
(*                applied to bounded value trees                           *)
(*                                                                         *)
(*   SpecDiag     the Diagnostics Classifier, compute_diagnostics of       *)
(*                crates/intl-lens/src/backend.rs, applied to the found    *)
(*                keys of a document and an index                          *)
(*                                                                         *)
(*   SpecFinder   the Usage-Site Key Finder                                *)
(*                (crates/intl-lens/src/i18n/key_finder.rs) applied to     *)
(*                bounded document texts                                   *)
(*                                                                         *)
(*   SpecLocale   the locale inference of the scanner,                     *)
(*                extract_locale_from_path applied to one path             *)
(*                                                                         *)
(*   SpecConfig   configuration loading, load_from_workspace of            *)
(*                crates/intl-lens/src/config.rs on one workspace          *)
(*                                                                         *)
(*   SpecPhp      the array-literal (PHP) parser and its flattener,        *)
(*                parse_php applied to the token stream of one file        *)
(*                                                                         *)
(*   SpecNew      the construction of the key finder, KeyFinder::new on    *)
(*                one list of configured pattern strings                   *)
(*                                                                         *)
(*   SpecRequests the language-server requests handled one at a time, each *)
(*                to its end, with the answers they give                   *)
(*                                                                         *)
(*   SpecText     the string slicing of the requests: the completion       *)
(*                prefix of a line at a cursor, the label text of a hint   *)
(*                                                                         *)
(*   SpecBackend  the handlers of I18nBackend that write and read the      *)
(*                shared translation store: initialize, the watched-files  *)
(*                reload and the diagnostics pass of did_open, interleaved *)
(*                at their await points                                    *)
(*                                                                         *)
(*   SpecPhpRun   a run of parse_php on the characters of a content, one   *)
(*                lexer call and one parser step at a time; SpecPhpRunFair *)
(*                adds that the caller keeps running it                    *)
(*                                                                         *)
(*   SpecLocks    the read-write locks of I18nBackend under initialize and *)
(*                concurrent handlers; SpecLocksFair adds that the runtime *)
(*                polls every task that can go on                          *)
(*                                                                         *)
(*   SpecReloads  watched-files reloads that overlap on an initialized     *)
(*                backend                                                  *)
(*                                                                         *)
(*                                                                         *)
(* Strings of the program are TLA+ strings; a map (HashMap, DashMap) is a  *)
(* function whose DOMAIN is its key set.  Every specification drives its   *)
(* own variables and leaves the variables of the others at their idle      *)
(* values.                                                                 *)
(***************************************************************************)
EXTENDS Integers, Sequences, FiniteSets, TLC

VARIABLES
    disk,       \* the resource files a directory walk yields, in walk order
    store,      \* the live TranslationStore: translations and locale_files
    spc,        \* position of the thread that owns the scan / reload
    sidx,       \* number of files of the walk already handed to the loader
    before,     \* the translations map the running reload started from
    observed,   \* what the last query of the concurrent reader returned
    tree,       \* the value tree a resource file parsed to
    flat,       \* its mapping, once computed; that of its array-literal form
    patterns,   \* KeyFinder.patterns: the compiled patterns, in configured order
    text,       \* the document text handed to the key finder
    found,      \* the result of find_keys(text), once computed
    at_position, \* the last find_key_at_position call and its result
    index,      \* the Option<TranslationStore> compute_diagnostics reads
    usage,      \* the found keys of the document being diagnosed
    diagnostics, \* the diagnostics computed for it, once computed
    files,      \* backend: the resource files under the workspace root, in walk order
    files_seen, \* backend: every content the resource files had so far
    translation_store, \* I18nBackend.translation_store: Option<TranslationStore>
    workspace_root,    \* I18nBackend.workspace_root is Some
    pc,         \* position of each handler: initialize, watched files, did_open
    new_store,  \* the local `store` of initialize_workspace and of the reload
    widx,       \* number of files the reload's walk has loaded
    readers,    \* per RwLock, the handlers holding a read guard
    doc,        \* what find_keys returns for the opened document
    published,  \* the diagnostics last published, and when they were computed
    done,       \* how many watched-files notifications and diagnostic passes have run
    php_source, \* what the array-literal file was written from
    php_tokens, \* the tokens PhpLexer yields for the file's content
    php_result, \* the result of parse_php, once computed
    res_path,   \* a resource file's path: parent directory name and file stem
    inferred,   \* what extract_locale_from_path returned for it, once called
    cfg_files,  \* the three candidate configuration files under the root
    workspace,  \* what framework detection finds under the root
    loaded,     \* the result of load_from_workspace, once called
    configured, \* the pattern strings KeyFinder::new is given
    compiled,   \* KeyFinder.patterns of the finder it built, once built
    documents,  \* DocumentStore.documents: what find_keys gives per open uri
    reply,      \* what the last request handled answered or published
    completion_prefix, \* the call of extract_completion_prefix: input and outcome
    display_text,      \* the label text computed for a hint: input and outcome
    php_content, \* the characters parse_php is given
    next_tokens, \* what a call of PhpLexer::next_token does at each position of them
    lexer_pos, \* PhpLexer.pos, in characters
    lookahead, \* PhpParser.lookahead
    end_reported, \* the lexer call of the peek in progress reported the end of the input
    parser_at, \* where the parser is
    frames, \* the activations of parse_array, outermost first
    lexed, \* the tokens the lexer has returned
    outcome,\* what parse_root_array returned, once it did
    rwlocks, \* per lock of the backend, who holds it and who waits, first come first
    tasks, \* per handler running, which it is and the lock operation it is at
    root_set,\* workspace_root holds a root
    notified, \* the file changes the client has notified and no handler has picked up yet
    scans \* the scans the reloads have finished, in order: by whom, and the store built

storeVars == <<disk, store, spc, sidx, before, observed>>

flatVars == <<tree, flat>>

finderVars == <<patterns, text, found, at_position>>

diagVars == <<index, usage, diagnostics>>

backendVars == <<files, files_seen, translation_store, workspace_root, pc, new_store,
                 widx, readers, doc, published, done>>

phpVars == <<php_source, php_tokens, php_result>>

localeVars == <<res_path, inferred>>

configVars == <<cfg_files, workspace, loaded>>

newVars == <<configured, compiled>>

requestVars == <<documents, reply>>

textVars == <<completion_prefix, display_text>>

runVars ==
    <<php_content, next_tokens, lexer_pos, lookahead, end_reported,
      parser_at, frames, lexed, outcome>>

lockVars == <<rwlocks, tasks, root_set>>

reloadVars == <<notified, scans>>

vars ==
    <<storeVars, flatVars, finderVars, diagVars, backendVars, phpVars,
      localeVars, configVars, newVars, requestVars, textVars, runVars,
      lockVars, reloadVars>>

\* the variables each specification leaves alone
nonStoreVars ==
    <<flatVars, finderVars, diagVars, backendVars, phpVars, localeVars,
      configVars, newVars, requestVars, textVars, runVars, lockVars,
      reloadVars>>

nonFlatVars ==
    <<storeVars, finderVars, diagVars, backendVars, phpVars, localeVars,
      configVars, newVars, requestVars, textVars, runVars, lockVars,
      reloadVars>>

nonFinderVars ==
    <<storeVars, flatVars, diagVars, backendVars, phpVars, localeVars,
      configVars, newVars, requestVars, textVars, runVars, lockVars,
      reloadVars>>

nonDiagVars ==
    <<storeVars, flatVars, finderVars, backendVars, phpVars, localeVars,
      configVars, newVars, requestVars, textVars, runVars, lockVars,
      reloadVars>>

nonPhpVars ==
    <<storeVars, flatVars, finderVars, diagVars, backendVars, localeVars,
      configVars, newVars, requestVars, textVars, runVars, lockVars,
      reloadVars>>

nonLocaleVars ==
    <<storeVars, flatVars, finderVars, diagVars, backendVars, phpVars,
      configVars, newVars, requestVars, textVars, runVars, lockVars,
      reloadVars>>

nonConfigVars ==
    <<storeVars, flatVars, finderVars, diagVars, backendVars, phpVars,
      localeVars, newVars, requestVars, textVars, runVars, lockVars,
      reloadVars>>

nonNewVars ==
    <<storeVars, flatVars, finderVars, diagVars, backendVars, phpVars,
      localeVars, configVars, requestVars, textVars, runVars, lockVars,
      reloadVars>>

nonRequestVars ==
    <<storeVars, flatVars, finderVars, diagVars, phpVars, localeVars,
      configVars, newVars, textVars, runVars, lockVars, reloadVars>>

nonTextVars ==
    <<storeVars, flatVars, finderVars, diagVars, backendVars, phpVars,
      localeVars, configVars, newVars, requestVars, runVars, lockVars,
      reloadVars>>

nonBackendVars ==
    <<storeVars, flatVars, finderVars, diagVars, phpVars, localeVars,
      configVars, newVars, requestVars, textVars, runVars, lockVars,
      reloadVars>>

nonRunVars ==
    <<storeVars, flatVars, finderVars, diagVars, backendVars, phpVars,
      localeVars, configVars, newVars, requestVars, textVars, lockVars,
      reloadVars>>

nonLockVars ==
    <<storeVars, flatVars, finderVars, diagVars, backendVars, phpVars,
      localeVars, configVars, newVars, requestVars, textVars, runVars,
      reloadVars>>

nonReloadVars ==
    <<storeVars, flatVars, finderVars, diagVars, phpVars, localeVars,
      configVars, newVars, requestVars, textVars, runVars, lockVars>>

(***************************************************************************)
(* Bounds of the model                                                     *)
(***************************************************************************)
MaxFiles == 2

(***************************************************************************)
(* Translation Index: crates/i18n-lsp/src/i18n/store.rs                    *)
(***************************************************************************)
Locales == {"en", "fr"}

Keys == {"hello", "bye"}

NoLocale == "none"

EmptyMap == [k \in {} |-> ""]

\* Result<HashMap<String, String>> of TranslationParser::parse_file
ParseResults ==
    { [ok |-> FALSE, map |-> EmptyMap],
      [ok |-> TRUE, map |-> EmptyMap],
      [ok |-> TRUE, map |-> [hello |-> "Hello"]],
      [ok |-> TRUE, map |-> [hello |-> "Hi", bye |-> "Bye"]] }

\* One file the walk of scan_directory yields: the locale that
\* extract_locale_from_path infers for it (NoLocale for None) and what
\* parse_file returns for it.
Files == [locale : Locales \cup {NoLocale}, parsed : ParseResults]

Disks == UNION { [1..n -> Files] : n \in 0..MaxFiles }

\* TranslationStore::new
NewStore == [translations |-> EmptyMap, locale_files |-> EmptyMap]

\* TranslationEntry
Entry(key, value, path, locale) ==
    [key |-> key, value |-> value, file_path |-> path, locale |-> locale, line |-> 0]

\* DashMap / HashMap entry(k).or_default()
OrDefault(m, k, default) == IF k \in DOMAIN m THEN m[k] ELSE default

\* map with m[k] set to v (insert)
Insert(m, k, v) == [x \in DOMAIN m \cup {k} |-> IF x = k THEN v ELSE m[x]]

LoadTranslationFileDefaultsFirst(st, file, path) ==
    [translations |->
         Insert(st.translations, file.locale,
                IF file.parsed.ok
                THEN [k \in DOMAIN OrDefault(st.translations, file.locale, EmptyMap)
                                \cup DOMAIN file.parsed.map |->
                         IF k \in DOMAIN file.parsed.map
                         THEN Entry(k, file.parsed.map[k], path, file.locale)
                         ELSE st.translations[file.locale][k]]
                ELSE OrDefault(st.translations, file.locale, EmptyMap)),
     locale_files |->
         IF file.parsed.ok
         THEN Insert(st.locale_files, file.locale,
                     Append(OrDefault(st.locale_files, file.locale, <<>>), path))
         ELSE st.locale_files]

LoadTranslationFileKeepsFirst(st, file, path) ==
    IF file.parsed.ok
    THEN [translations |->
              Insert(st.translations, file.locale,
                     [k \in DOMAIN OrDefault(st.translations, file.locale, EmptyMap)
                                \cup DOMAIN file.parsed.map |->
                         IF k \in DOMAIN OrDefault(st.translations, file.locale, EmptyMap)
                         THEN st.translations[file.locale][k]
                         ELSE Entry(k, file.parsed.map[k], path, file.locale)]),
          locale_files |->
              Insert(st.locale_files, file.locale,
                     Append(OrDefault(st.locale_files, file.locale, <<>>), path))]
    ELSE st

\* TranslationStore::load_translation_file for the file at position path
LoadTranslationFile(st, file, path) ==
    IF file.parsed.ok
    THEN LET locale == file.locale
             old == OrDefault(st.translations, locale, EmptyMap)
             locale_map ==
                 [k \in DOMAIN old \cup DOMAIN file.parsed.map |->
                     IF k \in DOMAIN file.parsed.map
                     THEN Entry(k, file.parsed.map[k], path, locale)
                     ELSE old[k]]
         IN [translations |-> Insert(st.translations, locale, locale_map),
             locale_files |->
                 Insert(st.locale_files, locale,
                        Append(OrDefault(st.locale_files, locale, <<>>), path))]
    ELSE st

\* One iteration of the walk in scan_directory
ScanStep(st, d, i) ==
    IF d[i].locale # NoLocale THEN LoadTranslationFile(st, d[i], i) ELSE st

\* scan_and_load on a store no other thread can see: the files 1..n of the walk
RECURSIVE ScanPrefix(_, _, _)
ScanPrefix(st, d, n) ==
    IF n = 0 THEN st ELSE ScanStep(ScanPrefix(st, d, n - 1), d, n)

ScanAndLoad(st, d) == ScanPrefix(st, d, Len(d))

\* The order in which a DashMap iterates over its keys (unspecified; fixed here)
RECURSIVE IterOrder(_)
IterOrder(S) ==
    IF S = {} THEN <<>>
    ELSE LET x == CHOOSE y \in S : TRUE IN <<x>> \o IterOrder(S \ {x})

\* TranslationStore::get_locales
GetLocales(t) == IterOrder(DOMAIN t)

\* Iterator::any over the entries of the map, in iteration order
RECURSIVE AnyContains(_, _, _)
AnyContains(t, order, key) ==
    IF order = <<>> THEN FALSE
    ELSE IF key \in DOMAIN t[Head(order)] THEN TRUE
    ELSE AnyContains(t, Tail(order), key)

KeyExistsAll(t, key) ==
    \A i \in 1..Len(IterOrder(DOMAIN t)) : key \in DOMAIN t[IterOrder(DOMAIN t)[i]]

\* TranslationStore::key_exists
KeyExists(t, key) == AnyContains(t, IterOrder(DOMAIN t), key)

GetMissingLocalesNoNegation(t, key) ==
    SelectSeq(GetLocales(t), LAMBDA locale : locale \in DOMAIN t /\ key \in DOMAIN t[locale])

\* TranslationStore::get_missing_locales
GetMissingLocales(t, key) ==
    SelectSeq(GetLocales(t),
              LAMBDA locale : IF locale \in DOMAIN t THEN key \notin DOMAIN t[locale] ELSE TRUE)

\* TranslationStore::get_translation
GetTranslation(t, key, locale) ==
    IF locale \in DOMAIN t /\ key \in DOMAIN t[locale]
    THEN <<t[locale][key].value>> ELSE <<>>

\* What one reader call sees of the live store
Observation(t, key, during) ==
    [key |-> key,
     exists |-> KeyExists(t, key),
     missing |-> GetMissingLocales(t, key),
     locales |-> GetLocales(t),
     during_reload |-> during]

NoObservation == [key |-> "", exists |-> FALSE, missing |-> <<>>, locales |-> <<>>,
                  during_reload |-> FALSE]


(***************************************************************************)
(* Flattener: crates/intl-lens/src/i18n/parser.rs                          *)
(***************************************************************************)
MaxArr == 2

ObjKeys == {"a", "b"}

\* serde_json::Value
JString(s) == [tag |-> "String", s |-> s]

JNumber(n) == [tag |-> "Number", n |-> n]

JBool(b) == [tag |-> "Bool", b |-> b]

JNull == [tag |-> "Null"]

JArray(items) == [tag |-> "Array", items |-> items]

JObject(map) == [tag |-> "Object", map |-> map]

SeqsUpTo(S, n) == UNION { [1..k -> S] : k \in 0..n }

MapsOver(S) == UNION { [ks -> S] : ks \in SUBSET ObjKeys }

LeafValues == {JString("x"), JNumber(1), JBool(TRUE), JNull}

InnerLeafValues == {JString("x"), JNull}

\* the values one level below the root: leaves, and containers of leaves
ChildValues ==
    LeafValues
        \cup { JArray(s) : s \in SeqsUpTo(InnerLeafValues, MaxArr) }
        \cup { JObject(m) : m \in MapsOver(InnerLeafValues) }

\* objects with an empty key (in YAML also a key that is not a string, for
\* which key.as_str().unwrap_or("") gives the empty key)
EmptyKeyTrees ==
    { JObject([k \in {""} |-> v]) : v \in {JString("x"), JNull, JObject([a |-> JString("x")])} }
        \cup { JObject([k \in {"", "a"} |-> JString("x")]),
               JObject([a |-> JObject([k \in {""} |-> JString("x")])]) }

\* the value trees a parsed resource file can be
Trees ==
    LeafValues
        \cup { JArray(s) : s \in SeqsUpTo(ChildValues, MaxArr) }
        \cup { JObject(m) : m \in MapsOver(ChildValues) }
        \cup EmptyKeyTrees

\* bool::to_string
BoolToString(b) == IF b THEN "true" ELSE "false"

\* serde_json::Number::to_string, usize::to_string
NumToString(n) == ToString(n)

\* TranslationParser::flatten_json; the loops over an object's entries and an
\* array's elements are FlattenJsonObject and FlattenJsonArray
RECURSIVE FlattenJson(_, _, _), FlattenJsonObject(_, _, _, _), FlattenJsonArray(_, _, _, _)
FlattenJson(value, prefix, result) ==
    CASE value.tag = "Object" ->
            FlattenJsonObject(value.map, IterOrder(DOMAIN value.map), prefix, result)
      [] value.tag = "String" -> Insert(result, prefix, value.s)
      [] value.tag = "Number" -> Insert(result, prefix, NumToString(value.n))
      [] value.tag = "Bool" -> Insert(result, prefix, BoolToString(value.b))
      [] value.tag = "Array" -> FlattenJsonArray(value.items, 1, prefix, result)
      [] value.tag = "Null" -> result

FlattenJsonObject(map, order, prefix, result) ==
    IF order = <<>> THEN result
    ELSE LET key == Head(order)
             new_key == IF prefix = "" THEN key ELSE prefix \o "." \o key
         IN FlattenJsonObject(map, Tail(order), prefix,
                              FlattenJson(map[key], new_key, result))

FlattenJsonArray(arr, pos, prefix, result) ==
    IF pos > Len(arr) THEN result
    ELSE LET new_key == prefix \o "." \o NumToString(pos - 1)
         IN FlattenJsonArray(arr, pos + 1, prefix,
                             FlattenJson(arr[pos], new_key, result))

\* TranslationParser::parse_json on a document that parses to value
ParseJson(value) == FlattenJson(value, "", EmptyMap)

NotFlattened == [done |-> FALSE, map |-> EmptyMap,
                 php |-> [done |-> FALSE, ok |-> FALSE, map |-> EmptyMap]]

(***************************************************************************)
(* Usage-Site Key Finder: crates/intl-lens/src/i18n/key_finder.rs          *)
(*                                                                         *)
(* A text is a sequence of one-character strings, all of them one byte     *)
(* long, so the byte offset of the character at index i is i - 1.  The     *)
(* quote character "'" stands for either quote of the class ["'].          *)
(***************************************************************************)
MaxFrags == 3

MaxLine == 1

MaxChar == 7

NL == "\n"

Quote == "'"

\* \w, \s and ["'] over the characters of the model
IsWord(c) == c \in {"t", "a", "b"}

IsSpace(c) == c = NL

IsQuote(c) == c = Quote

\* (?:^|[^\w.])t\s*\(\s*["']([^"']+)["']   (default_patterns, first entry)
PatternT == [lead |-> "boundary", stop |-> {Quote}, close |-> TRUE]

\* \$t\s*\(\s*["']([^"']+)["']             (default_patterns, third entry)
PatternDollarT == [lead |-> "dollar", stop |-> {Quote}, close |-> TRUE]

\* t\s*\(\s*["']([^"'.]+)   a configured functionPatterns entry that captures
\* the first dotted segment only
PatternSegment == [lead |-> "none", stop |-> {Quote, "."}, close |-> FALSE]

\* the pattern lists KeyFinder::new is given
PatternLists ==
    { <<PatternT, PatternDollarT>>,
      <<PatternT, PatternSegment>>,
      <<PatternSegment, PatternT>> }

\* the pieces document texts are made of
Fragments ==
    { <<"t", "(", Quote, "a", Quote>>,
      <<"t", "(", Quote, "a", ".", "b", Quote>>,
      <<"t", "(", Quote, "a", NL, "b", Quote>>,
      <<"$">>,
      <<".">>,
      <<NL>>,
      <<Quote>> }

RECURSIVE Concat(_)
Concat(seqs) == IF seqs = <<>> THEN <<>> ELSE Head(seqs) \o Concat(Tail(seqs))

Texts == { Concat(fs) : fs \in UNION { [1..n -> Fragments] : n \in 0..MaxFrags } }

NoMatch == [matched |-> FALSE, start |-> 0, end |-> 0, cs |-> 0, ce |-> 0]

\* \s* from index i: the first index at or after i that holds no whitespace
RECURSIVE SkipSpace(_, _)
SkipSpace(content, i) ==
    IF i <= Len(content) /\ IsSpace(content[i]) THEN SkipSpace(content, i + 1) ELSE i

\* [^stop]* from index i, greedy: the first index at or after i that is past
\* the end or holds a character of stop
RECURSIVE RunEnd(_, _, _)
RunEnd(content, i, stop) ==
    IF i <= Len(content) /\ content[i] \notin stop
    THEN RunEnd(content, i + 1, stop) ELSE i

\* t\s*\(\s*["']([^stop]+) and the closing quote, with the 't' at index i of a
\* match that starts at index start
MatchTail(p, content, start, i) ==
    IF i > Len(content) \/ content[i] # "t" THEN NoMatch
    ELSE LET j == SkipSpace(content, i + 1)
         IN IF j > Len(content) \/ content[j] # "(" THEN NoMatch
            ELSE LET k == SkipSpace(content, j + 1)
                 IN IF k > Len(content) \/ ~IsQuote(content[k]) THEN NoMatch
                    ELSE LET cs == k + 1
                             ce == RunEnd(content, cs, p.stop)
                         IN IF ce = cs THEN NoMatch
                            ELSE IF ~p.close
                            THEN [matched |-> TRUE, start |-> start, end |-> ce,
                                  cs |-> cs, ce |-> ce]
                            ELSE IF ce <= Len(content) /\ IsQuote(content[ce])
                            THEN [matched |-> TRUE, start |-> start, end |-> ce + 1,
                                  cs |-> cs, ce |-> ce]
                            ELSE NoMatch

\* the match of pattern p that starts exactly at index i, if any
MatchAt(p, content, i) ==
    CASE p.lead = "none" -> MatchTail(p, content, i, i)
      [] p.lead = "dollar" ->
            IF i <= Len(content) /\ content[i] = "$"
            THEN MatchTail(p, content, i, i + 1) ELSE NoMatch
      [] p.lead = "boundary" ->
            IF i = 1 /\ MatchTail(p, content, i, i).matched
            THEN MatchTail(p, content, i, i)
            ELSE IF i <= Len(content) /\ ~IsWord(content[i]) /\ content[i] # "."
            THEN MatchTail(p, content, i, i + 1)
            ELSE NoMatch

\* the leftmost match of p that starts at or after index from
RECURSIVE NextMatch(_, _, _)
NextMatch(p, content, from) ==
    IF from > Len(content) THEN NoMatch
    ELSE IF MatchAt(p, content, from).matched THEN MatchAt(p, content, from)
    ELSE NextMatch(p, content, from + 1)

\* the loop of offset_to_position over content.char_indices(), at byte offset i
RECURSIVE OffsetScan(_, _, _, _, _)
OffsetScan(content, i, start_offset, line, line_start) ==
    IF i >= Len(content) \/ i >= start_offset THEN <<line, line_start>>
    ELSE IF content[i + 1] = NL
    THEN OffsetScan(content, i + 1, start_offset, line + 1, i + 1)
    ELSE OffsetScan(content, i + 1, start_offset, line, line_start)

\* KeyFinder::offset_to_position: (line, start_char, end_char)
OffsetToPosition(content, start_offset, end_offset) ==
    LET at == OffsetScan(content, 0, start_offset, 0, 0)
    IN <<at[1], start_offset - at[2], end_offset - at[2]>>

\* the FoundKey that find_keys pushes for a match's capture group
FoundKey(content, m) ==
    LET start_offset == m.cs - 1
        end_offset == m.ce - 1
        pos == OffsetToPosition(content, start_offset, end_offset)
    IN [key |-> SubSeq(content, m.cs, m.ce - 1),
        start_offset |-> start_offset,
        line |-> pos[1],
        start_char |-> pos[2],
        end_char |-> pos[3]]

\* pattern.captures_iter(content): the successive non-overlapping matches
RECURSIVE CapturesIter(_, _, _)
CapturesIter(p, content, from) ==
    LET m == NextMatch(p, content, from)
    IN IF ~m.matched THEN <<>>
       ELSE <<FoundKey(content, m)>> \o CapturesIter(p, content, m.end)

\* the two nested loops of find_keys: every pattern's matches, pattern by pattern
RECURSIVE PooledMatches(_, _)
PooledMatches(pats, content) ==
    IF pats = <<>> THEN <<>>
    ELSE CapturesIter(Head(pats), content, 1) \o PooledMatches(Tail(pats), content)

\* one insertion of the stable sort: k goes after every entry that does not
\* start later than it
RECURSIVE InsertByStart(_, _)
InsertByStart(sorted, k) ==
    IF sorted = <<>> THEN <<k>>
    ELSE IF Head(sorted).start_offset <= k.start_offset
    THEN <<Head(sorted)>> \o InsertByStart(Tail(sorted), k)
    ELSE <<k>> \o sorted

\* found_keys.sort_by_key(|k| k.start_offset): a stable sort
RECURSIVE SortByStart(_)
SortByStart(keys) ==
    IF keys = <<>> THEN <<>>
    ELSE InsertByStart(SortByStart(SubSeq(keys, 1, Len(keys) - 1)), keys[Len(keys)])

RECURSIVE DedupKeepLast(_)
DedupKeepLast(keys) ==
    IF Len(keys) <= 1 THEN keys
    ELSE IF keys[1].start_offset = keys[2].start_offset
    THEN DedupKeepLast(Tail(keys))
    ELSE <<keys[1]>> \o DedupKeepLast(Tail(keys))

\* found_keys.dedup_by(|a, b| a.start_offset == b.start_offset): an entry is
\* dropped when it starts where the entry kept before it starts
RECURSIVE DedupByStart(_)
DedupByStart(keys) ==
    IF Len(keys) <= 1 THEN keys
    ELSE IF keys[2].start_offset = keys[1].start_offset
    THEN DedupByStart(<<keys[1]>> \o SubSeq(keys, 3, Len(keys)))
    ELSE <<keys[1]>> \o DedupByStart(Tail(keys))

\* KeyFinder::find_keys
FindKeys(pats, content) == DedupByStart(SortByStart(PooledMatches(pats, content)))

\* Iterator::find over the keys
RECURSIVE FindFirst(_, _, _)
FindFirst(keys, line, character) ==
    IF keys = <<>> THEN <<>>
    ELSE IF /\ Head(keys).line = line
            /\ character >= Head(keys).start_char
            /\ character <= Head(keys).end_char
    THEN <<Head(keys)>>
    ELSE FindFirst(Tail(keys), line, character)

FindKeyAtPositionExclusiveEnd(pats, content, line, character) ==
    LET keys == FindKeys(pats, content)
        hits == SelectSeq(keys, LAMBDA k : k.line = line /\ character >= k.start_char
                                              /\ character < k.end_char)
    IN IF hits = <<>> THEN <<>> ELSE <<hits[1]>>

\* KeyFinder::find_key_at_position: Some(k) is <<k>>, None is <<>>
FindKeyAtPosition(pats, content, line, character) ==
    FindFirst(FindKeys(pats, content), line, character)

NotFound == [done |-> FALSE, keys |-> <<>>]

NotAsked == [asked |-> FALSE, line |-> 0, character |-> 0, result |-> <<>>]

(***************************************************************************)
(* Diagnostics Classifier: crates/intl-lens/src/backend.rs                 *)
(***************************************************************************)
MaxFound == 2

\* Option<TranslationStore>
NoStore == [some |-> FALSE, store |-> NewStore]

StoreLeftAbsent(st) == [some |-> FALSE, store |-> st]

SomeStore(st) == [some |-> TRUE, store |-> st]

\* the keys documents use: those of the resource files and one no file has
DocKeys == Keys \cup {"lost"}

\* the i-th found key of a document that uses one key per line
FoundKeyOnLine(i, key) ==
    [key |-> key, start_offset |-> 20 * (i - 1) + 3, line |-> i - 1,
     start_char |-> 3, end_char |-> 3 + Len(key)]

\* what find_keys can return for such documents
FoundLists ==
    UNION { { [i \in 1..n |-> FoundKeyOnLine(i, ks[i])] : ks \in [1..n -> DocKeys] } :
            n \in 0..MaxFound }

\* Range { start: (line, start_char), end: (line, end_char) }
KeyRange(found_key) ==
    [start |-> [line |-> found_key.line, character |-> found_key.start_char],
     end |-> [line |-> found_key.line, character |-> found_key.end_char]]

\* Vec<String>::join(sep), the pieces kept apart
RECURSIVE Join(_, _)
Join(strings, sep) ==
    IF strings = <<>> THEN <<>>
    ELSE IF Len(strings) = 1 THEN strings
    ELSE <<Head(strings), sep>> \o Join(Tail(strings), sep)

\* the Diagnostic pushed for a key no locale has
MissingDiagnostic(found_key) ==
    [range |-> KeyRange(found_key),
     severity |-> "WARNING",
     code |-> "missing-translation",
     source |-> "i18n",
     message |-> <<"Translation key '", found_key.key, "' not found">>]

\* the Diagnostic pushed for a key some locales lack
IncompleteDiagnostic(found_key, missing_locales) ==
    [range |-> KeyRange(found_key),
     severity |-> "HINT",
     code |-> "incomplete-translation",
     source |-> "i18n",
     message |-> <<"Translation '", found_key.key, "' missing in: ">>
                     \o Join(missing_locales, ", ")]

DiagnoseKeyMissingAsHint(st, found_key) ==
    IF ~KeyExists(st.translations, found_key.key)
    THEN <<[MissingDiagnostic(found_key) EXCEPT !.severity = "HINT"]>>
    ELSE IF GetMissingLocales(st.translations, found_key.key) # <<>>
    THEN <<IncompleteDiagnostic(found_key,
                                GetMissingLocales(st.translations, found_key.key))>>
    ELSE <<>>

DiagnoseKeyListsAllLocales(st, found_key) ==
    IF ~KeyExists(st.translations, found_key.key)
    THEN <<MissingDiagnostic(found_key)>>
    ELSE IF GetMissingLocales(st.translations, found_key.key) # <<>>
    THEN <<IncompleteDiagnostic(found_key, GetLocales(st.translations))>>
    ELSE <<>>

DiagnoseKeyNoElse(st, found_key) ==
    (IF ~KeyExists(st.translations, found_key.key)
     THEN <<MissingDiagnostic(found_key)>> ELSE <<>>)
    \o (IF GetMissingLocales(st.translations, found_key.key) # <<>>
        THEN <<IncompleteDiagnostic(found_key,
                                    GetMissingLocales(st.translations, found_key.key))>>
        ELSE <<>>)

\* the body of the loop of compute_diagnostics: what it pushes for one key
DiagnoseKey(st, found_key) ==
    IF ~KeyExists(st.translations, found_key.key)
    THEN <<MissingDiagnostic(found_key)>>
    ELSE LET missing_locales == GetMissingLocales(st.translations, found_key.key)
         IN IF missing_locales # <<>>
            THEN <<IncompleteDiagnostic(found_key, missing_locales)>>
            ELSE <<>>

\* the loop of compute_diagnostics over found_keys
RECURSIVE DiagnoseAll(_, _)
DiagnoseAll(st, found_keys) ==
    IF found_keys = <<>> THEN <<>>
    ELSE DiagnoseKey(st, Head(found_keys)) \o DiagnoseAll(st, Tail(found_keys))

\* I18nBackend::compute_diagnostics, given what find_keys returned and the
\* Option<TranslationStore> read under the read guard
ComputeDiagnostics(found_keys, store_option) ==
    IF ~store_option.some THEN <<>>
    ELSE DiagnoseAll(store_option.store, found_keys)

NotComputed == [done |-> FALSE, list |-> <<>>]

(***************************************************************************)
(* Backend handlers: crates/intl-lens/src/backend.rs                       *)
(***************************************************************************)
MaxReloads == 1

MaxPasses == 1

MaxChanges == 1

\* the resource files of the workspace: en.json and fr.json, each parsing
\* to a non-empty map
BackendDisks ==
    { <<[locale |-> "en", parsed |-> p], [locale |-> "fr", parsed |-> q]>> :
        p, q \in { r \in ParseResults : r.ok /\ r.map # EmptyMap } }

\* what find_keys returns for the documents opened: one usage site
BackendDocs == { found_keys \in FoundLists : Len(found_keys) = 1 }

Handlers == {"initialize", "watched_files", "did_open"}

Locks == {"key_finder", "translation_store", "config", "workspace_root"}

NoReaders == [l \in Locks |-> {}]

\* RwLock::read().await returning a guard / the guard being dropped
Acquire(rs, lock, h) == [rs EXCEPT ![lock] = @ \cup {h}]

Release(rs, lock, h) == [rs EXCEPT ![lock] = @ \ {h}]

\* RwLock::write().await can return: no read guard is out
CanWrite(rs, lock) == rs[lock] = {}

WatchClearLiveStore(live) == [live |-> SomeStore(NewStore), store |-> NewStore]

\* `let store = TranslationStore::new(root.clone())` in the reload: a fresh
\* store local to the handler; the shared one is not touched
WatchCreateStore(live) == [live |-> live, store |-> NewStore]

NothingPublished ==
    [done |-> FALSE, doc |-> <<>>, list |-> <<>>, during |-> "idle", loaded |-> 0]

NothingDone == [reloads |-> 0, passes |-> 0]

(***************************************************************************)
(* Array-literal parser: crates/intl-lens/src/i18n/parser.rs               *)
(*                                                                         *)
(* The parser is modelled on the token stream PhpLexer::next_token yields  *)
(* for the file's content; position pos is the index of the next token.    *)
(***************************************************************************)
MaxTokens == 4

MaxItems == 2

MaxInner == 1

\* PhpToken
Tok(kind, lexeme) == [kind |-> kind, text |-> lexeme]

LBracket == Tok("LBracket", "")

RBracket == Tok("RBracket", "")

LParen == Tok("LParen", "")

RParen == Tok("RParen", "")

Comma == Tok("Comma", "")

Arrow == Tok("Arrow", "")

StringTok(s) == Tok("String", s)

IdentTok(s) == Tok("Ident", s)

NumberTok(s) == Tok("Number", s)

\* PhpValue; an item of Array is (Option<String>, PhpValue)
PString(s) == [tag |-> "String", s |-> s]

PNumber(s) == [tag |-> "Number", s |-> s]

PBool(b) == [tag |-> "Bool", b |-> b]

PNull == [tag |-> "Null"]

PArray(items) == [tag |-> "Array", items |-> items]

Item(key_opt, entry) == [key |-> key_opt, entry |-> entry]

\* Result<PhpValue> of the parser functions, with the position reached
Parsed(value, pos) == [ok |-> TRUE, value |-> value, pos |-> pos, error |-> ""]

Bail(error, pos) == [ok |-> FALSE, value |-> PNull, pos |-> pos, error |-> error]

\* PhpParser::peek_token / peek_kind at position pos; "None" at end of input
PeekKind(tokens, pos) == IF pos > Len(tokens) THEN "None" ELSE tokens[pos].kind

\* the token at pos starts an array: `[` or the identifier array
IsArrayStart(tokens, pos) ==
    /\ pos <= Len(tokens)
    /\ \/ tokens[pos].kind = "LBracket"
       \/ tokens[pos].kind = "Ident" /\ tokens[pos].text = "array"

\* value_to_key
ValueToKey(value) ==
    CASE value.tag = "String" -> value.s
      [] value.tag = "Number" -> value.s
      [] value.tag = "Bool" -> BoolToString(value.b)
      [] value.tag = "Null" -> ""
      [] value.tag = "Array" -> ""

\* PhpParser::consume_kind(Comma): the position after an optional comma
AfterComma(tokens, pos) == IF PeekKind(tokens, pos) = "Comma" THEN pos + 1 ELSE pos

\* PhpParser::parse_array, its loop (ParseItems) and PhpParser::parse_value
RECURSIVE ParseArray(_, _), ParseItems(_, _, _, _), ParseValue(_, _)
ParseArray(tokens, pos) ==
    IF PeekKind(tokens, pos) = "LBracket"
    THEN ParseItems(tokens, pos + 1, "RBracket", <<>>)
    ELSE IF IsArrayStart(tokens, pos)
    THEN IF PeekKind(tokens, pos + 1) = "LParen"
         THEN ParseItems(tokens, pos + 2, "RParen", <<>>)
         ELSE Bail("Expected token kind: LParen", pos + 1)
    ELSE Bail("Expected array start", pos)

ParseItems(tokens, pos, end_kind, items) ==
    IF PeekKind(tokens, pos) = end_kind THEN Parsed(PArray(items), pos + 1)
    ELSE IF PeekKind(tokens, pos) = "None" THEN Parsed(PArray(items), pos)
    ELSE LET key_or_value == ParseValue(tokens, pos)
         IN IF ~key_or_value.ok THEN key_or_value
            ELSE IF PeekKind(tokens, key_or_value.pos) = "Arrow"
            THEN LET key == ValueToKey(key_or_value.value)
                     value == ParseValue(tokens, key_or_value.pos + 1)
                 IN IF ~value.ok THEN value
                    ELSE ParseItems(tokens, AfterComma(tokens, value.pos), end_kind,
                                    IF key # ""
                                    THEN Append(items, Item(<<key>>, value.value))
                                    ELSE items)
            ELSE ParseItems(tokens, AfterComma(tokens, key_or_value.pos), end_kind,
                            Append(items, Item(<<>>, key_or_value.value)))

ParseValue(tokens, pos) ==
    IF IsArrayStart(tokens, pos) THEN ParseArray(tokens, pos)
    ELSE CASE PeekKind(tokens, pos) = "String" -> Parsed(PString(tokens[pos].text), pos + 1)
           [] PeekKind(tokens, pos) = "Number" -> Parsed(PNumber(tokens[pos].text), pos + 1)
           [] PeekKind(tokens, pos) = "Ident" ->
                 CASE tokens[pos].text = "true" -> Parsed(PBool(TRUE), pos + 1)
                   [] tokens[pos].text = "false" -> Parsed(PBool(FALSE), pos + 1)
                   [] tokens[pos].text = "null" -> Parsed(PNull, pos + 1)
                   [] OTHER -> Parsed(PString(tokens[pos].text), pos + 1)
           [] PeekKind(tokens, pos) = "None" -> Bail("Unexpected end of input", pos)
           [] OTHER -> Bail("Unexpected token", pos + 1)

\* PhpParser::parse_root_array: tokens are skipped up to the first array start
RECURSIVE ParseRootArrayFrom(_, _)
ParseRootArrayFrom(tokens, pos) ==
    IF pos > Len(tokens) THEN Bail("No PHP array found", pos)
    ELSE IF IsArrayStart(tokens, pos) THEN ParseArray(tokens, pos)
    ELSE ParseRootArrayFrom(tokens, pos + 1)

ParseRootArray(tokens) == ParseRootArrayFrom(tokens, 1)

\* flatten_php and its loop over the items of an Array
RECURSIVE FlattenPhp(_, _, _), FlattenPhpItems(_, _, _, _, _)
FlattenPhp(value, prefix, result) ==
    CASE value.tag = "String" -> IF prefix # "" THEN Insert(result, prefix, value.s) ELSE result
      [] value.tag = "Number" -> IF prefix # "" THEN Insert(result, prefix, value.s) ELSE result
      [] value.tag = "Bool" ->
            IF prefix # "" THEN Insert(result, prefix, BoolToString(value.b)) ELSE result
      [] value.tag = "Null" -> result
      [] value.tag = "Array" -> FlattenPhpItems(value.items, 1, 0, prefix, result)

FlattenPhpItems(items, i, list_index, prefix, result) ==
    IF i > Len(items) THEN result
    ELSE LET key == IF items[i].key # <<>> THEN items[i].key[1] ELSE NumToString(list_index)
             next_index == IF items[i].key # <<>> THEN list_index ELSE list_index + 1
             new_prefix == IF prefix = "" THEN key ELSE prefix \o "." \o key
         IN IF key = ""
            THEN FlattenPhpItems(items, i + 1, next_index, prefix, result)
            ELSE FlattenPhpItems(items, i + 1, next_index, prefix,
                                 FlattenPhp(items[i].entry, new_prefix, result))

\* TranslationParser::parse_php on the token stream of the content
ParsePhp(tokens) ==
    LET value == ParseRootArray(tokens)
    IN IF value.ok
       THEN [done |-> TRUE, ok |-> TRUE, map |-> FlattenPhp(value.value, "", EmptyMap)]
       ELSE [done |-> TRUE, ok |-> FALSE, map |-> EmptyMap]

NotParsed == [done |-> FALSE, ok |-> FALSE, map |-> EmptyMap]

\* the array-literal form of a JSON value tree: objects as `[k => v, ...]`,
\* arrays as `[v, ...]`, scalars as the literal of the same text
RECURSIVE PhpFormOfJson(_), PhpFormOfEntries(_, _), PhpFormOfElements(_, _)
PhpFormOfJson(value) ==
    CASE value.tag = "Object" ->
            <<LBracket>> \o PhpFormOfEntries(value.map, IterOrder(DOMAIN value.map))
                \o <<RBracket>>
      [] value.tag = "Array" -> <<LBracket>> \o PhpFormOfElements(value.items, 1) \o <<RBracket>>
      [] value.tag = "String" -> <<StringTok(value.s)>>
      [] value.tag = "Number" -> <<NumberTok(NumToString(value.n))>>
      [] value.tag = "Bool" -> <<IdentTok(BoolToString(value.b))>>
      [] value.tag = "Null" -> <<IdentTok("null")>>

PhpFormOfEntries(map, order) ==
    IF order = <<>> THEN <<>>
    ELSE <<StringTok(Head(order)), Arrow>> \o PhpFormOfJson(map[Head(order)])
            \o (IF Len(order) > 1 THEN <<Comma>> ELSE <<>>)
            \o PhpFormOfEntries(map, Tail(order))

PhpFormOfElements(arr, pos) ==
    IF pos > Len(arr) THEN <<>>
    ELSE PhpFormOfJson(arr[pos])
            \o (IF pos < Len(arr) THEN <<Comma>> ELSE <<>>)
            \o PhpFormOfElements(arr, pos + 1)

\* the JSON value trees that have an array-literal form: the containers
ContainerTrees == { t \in Trees : t.tag \in {"Object", "Array"} }

\* array literals written by hand: items with or without an explicit key,
\* the same key possibly more than once, nested one level
PhpKeys == {<<>>, <<"a">>}

PhpLeaves == {PString("x"), PString("y")}

InnerArrays == { PArray(items) : items \in SeqsUpTo([key : PhpKeys, entry : PhpLeaves], MaxInner) }

PhpLiterals ==
    { PArray(items) :
        items \in SeqsUpTo([key : PhpKeys, entry : PhpLeaves \cup InnerArrays], MaxItems) }

\* the tokens of a literal: the root in bracket form, nested arrays in the
\* call form array( ... ), a trailing comma after the last item of the root
RECURSIVE TokensOfLiteral(_, _), TokensOfItems(_, _)
TokensOfLiteral(value, nested) ==
    CASE value.tag = "Array" ->
            IF nested
            THEN <<IdentTok("array"), LParen>> \o TokensOfItems(value.items, TRUE) \o <<RParen>>
            ELSE <<LBracket>> \o TokensOfItems(value.items, FALSE) \o <<RBracket>>
      [] value.tag = "String" -> <<StringTok(value.s)>>
      [] value.tag = "Number" -> <<NumberTok(value.s)>>
      [] value.tag = "Bool" -> <<IdentTok(BoolToString(value.b))>>
      [] value.tag = "Null" -> <<IdentTok("null")>>

TokensOfItems(items, nested) ==
    IF items = <<>> THEN <<>>
    ELSE (IF Head(items).key # <<>> THEN <<StringTok(Head(items).key[1]), Arrow>> ELSE <<>>)
            \o TokensOfLiteral(Head(items).entry, TRUE)
            \o (IF Len(items) > 1 \/ ~nested THEN <<Comma>> ELSE <<>>)
            \o TokensOfItems(Tail(items), nested)

\* short token streams of any shape, well-formed or not
TokenAlphabet ==
    {LBracket, RBracket, LParen, RParen, Comma, Arrow, StringTok("a"), IdentTok("array")}

TokenStreams == SeqsUpTo(TokenAlphabet, MaxTokens)

JsonSource(t) == [kind |-> "json", json |-> t, literal |-> PNull]

LiteralSource(l) == [kind |-> "literal", json |-> JNull, literal |-> l]

TokenSource == [kind |-> "tokens", json |-> JNull, literal |-> PNull]

(***************************************************************************)
(* Locale inference: crates/i18n-lsp/src/i18n/store.rs                     *)
(*                                                                         *)
(* A name is a sequence of one-character strings; NotUtf8 stands for a     *)
(* name OsStr::to_str cannot decode.                                       *)
(***************************************************************************)
MaxName == 5

NameChars == {"e", "n", "N", "-", "_", "1"}

NotUtf8 == <<"\\xFF">>

Names == SeqsUpTo(NameChars, MaxName)

\* the directories a resource file is found in
ParentNames == {<<"e", "n">>, <<"n", "n", "_", "N", "N">>, <<"e", "N">>, <<"1">>, NotUtf8}

IsLower(c) == c \in {"e", "n"}

IsUpper(c) == c \in {"N"}

\* the regular expressions of is_locale_code
MatchesLower2(str) == Len(str) = 2 /\ IsLower(str[1]) /\ IsLower(str[2])

MatchesUpperRegion(str) ==
    /\ Len(str) = 5
    /\ IsLower(str[1]) /\ IsLower(str[2])
    /\ str[3] \in {"-", "_"}
    /\ IsUpper(str[4]) /\ IsUpper(str[5])

MatchesLowerRegion(str) ==
    /\ Len(str) = 5
    /\ IsLower(str[1]) /\ IsLower(str[2])
    /\ str[3] \in {"-", "_"}
    /\ IsLower(str[4]) /\ IsLower(str[5])

\* the common_locales of is_locale_code that names over NameChars can spell
common_locales == {<<"e", "n">>}

\* is_locale_code
IsLocaleCode(str) ==
    \/ MatchesLower2(str)
    \/ MatchesUpperRegion(str)
    \/ MatchesLowerRegion(str)
    \/ str \in common_locales

\* Option<String>
None == <<>>

Some(x) == <<x>>

\* TranslationStore::extract_locale_from_path
ExtractLocaleFromPath(p) ==
    IF p.stem = NotUtf8 THEN None
    ELSE IF IsLocaleCode(p.stem) THEN Some(p.stem)
    ELSE IF p.parent # NotUtf8 /\ IsLocaleCode(p.parent) THEN Some(p.parent)
    ELSE None

NotInferred == [done |-> FALSE, result |-> None]

(***************************************************************************)
(* Configuration loading: crates/intl-lens/src/config.rs                   *)
(***************************************************************************)
\* config_paths, in the order load_from_workspace tries them
config_paths == <<".i18n-ally.json", "i18n-ally.config.json", ".zed/i18n.json">>

default_locale_paths ==
    <<"locales", "i18n", "translations", "public/locales", "src/locales", "src/i18n">>

default_source_locale == "en"

\* what a candidate file can be: it cannot be read, its content does not
\* deserialize to I18nConfig, or it is a JSON object with some of the keys
\* localePaths, locale_paths, sourceLocale
Unreadable == [read |-> FALSE, parses |-> FALSE, keys |-> {}, localePaths |-> <<>>,
               locale_paths |-> <<>>, sourceLocale |-> ""]

Unparsable == [read |-> TRUE, parses |-> FALSE, keys |-> {}, localePaths |-> <<>>,
               locale_paths |-> <<>>, sourceLocale |-> ""]

JsonConfig(keys, paths, source) ==
    [read |-> TRUE, parses |-> TRUE, keys |-> keys,
     localePaths |-> IF "localePaths" \in keys THEN paths ELSE <<>>,
     locale_paths |-> IF "locale_paths" \in keys THEN paths ELSE <<>>,
     sourceLocale |-> IF "sourceLocale" \in keys THEN source ELSE ""]

Candidates ==
    { Unreadable,
      Unparsable,
      JsonConfig({"sourceLocale"}, <<>>, "de"),
      JsonConfig({"localePaths"}, <<"lang", "locales", "lang">>, ""),
      JsonConfig({"locale_paths"}, <<"lang">>, "") }

Frameworks == {"angular", "laravel", "flutter", "vue"}

\* directories that may or may not exist under the root; no other does
MaybeExisting == {"src/assets/i18n", "resources/lang", "lang", "lib/l10n", "src/locales"}

\* what detection sees: the frameworks the manifests declare, the arb-dir of
\* l10n.yaml, the paths that exist
Workspaces ==
    [frameworks : SUBSET Frameworks,
     arb_dir : {None, Some("lib/l10n")},
     exists : SUBSET MaybeExisting]

\* I18nConfig
Config(locale_paths, source_locale) ==
    [locale_paths |-> locale_paths, source_locale |-> source_locale]

\* I18nConfig::default
DefaultConfig == Config(default_locale_paths, default_source_locale)

\* serde_json::from_str::<I18nConfig>: camelCase field names, the default of
\* a field whose key is absent, unknown keys ignored
Deserialize(content) ==
    Config(IF "localePaths" \in content.keys THEN content.localePaths
           ELSE default_locale_paths,
           IF "sourceLocale" \in content.keys THEN content.sourceLocale
           ELSE default_source_locale)

\* detect_framework_locale_paths
DetectFrameworkLocalePaths(ws) ==
    LET paths ==
            (IF "angular" \in ws.frameworks THEN <<"src/assets/i18n">> ELSE <<>>)
         \o (IF "laravel" \in ws.frameworks THEN <<"resources/lang", "lang">> ELSE <<>>)
         \o (IF "flutter" \in ws.frameworks
             THEN ws.arb_dir \o <<"lib/l10n", "assets/translations", "assets/flutter_i18n",
                                  "assets/i18n">>
             ELSE <<>>)
         \o (IF "vue" \in ws.frameworks
             THEN <<"src/locales", "src/i18n", "locales", "i18n", "public/locales">>
             ELSE <<>>)
    IN SelectSeq(paths, LAMBDA dir : dir \in ws.exists)

\* the loop of add_detected_locale_paths: HashSet::insert, then push
RECURSIVE PushNew(_, _)
PushNew(locale_paths, detected_paths) ==
    IF detected_paths = <<>> THEN locale_paths
    ELSE IF \E n \in 1..Len(locale_paths) : locale_paths[n] = Head(detected_paths)
    THEN PushNew(locale_paths, Tail(detected_paths))
    ELSE PushNew(Append(locale_paths, Head(detected_paths)), Tail(detected_paths))

\* I18nConfig::add_detected_locale_paths
AddDetectedLocalePaths(config, ws) ==
    [config EXCEPT !.locale_paths = PushNew(@, DetectFrameworkLocalePaths(ws))]

LoadFromWorkspaceStopsAtUnparsable(candidates, ws, i) ==
    IF \E j \in i..Len(candidates) : candidates[j].read
    THEN LET j == CHOOSE j \in i..Len(candidates) :
                      candidates[j].read /\ \A n \in i..(j - 1) : ~candidates[n].read
         IN IF candidates[j].parses
            THEN [from |-> j,
                  config |-> IF candidates[j].keys \cap {"localePaths", "locale_paths"} = {}
                             THEN AddDetectedLocalePaths(Deserialize(candidates[j]), ws)
                             ELSE Deserialize(candidates[j])]
            ELSE [from |-> 0, config |-> AddDetectedLocalePaths(DefaultConfig, ws)]
    ELSE [from |-> 0, config |-> AddDetectedLocalePaths(DefaultConfig, ws)]

\* I18nConfig::load_from_workspace from candidate i on; from is the index
\* of the file the configuration was loaded from, 0 for the default
RECURSIVE LoadFromWorkspace(_, _, _)
LoadFromWorkspace(candidates, ws, i) ==
    IF i > Len(candidates)
    THEN [from |-> 0, config |-> AddDetectedLocalePaths(DefaultConfig, ws)]
    ELSE IF candidates[i].read /\ candidates[i].parses
    THEN LET has_locale_paths ==
                 "localePaths" \in candidates[i].keys \/ "locale_paths" \in candidates[i].keys
         IN [from |-> i,
             config |-> IF ~has_locale_paths
                        THEN AddDetectedLocalePaths(Deserialize(candidates[i]), ws)
                        ELSE Deserialize(candidates[i])]
    ELSE LoadFromWorkspace(candidates, ws, i + 1)

NotLoaded == [done |-> FALSE, from |-> 0, config |-> DefaultConfig]

(***************************************************************************)
(* Key finder construction: crates/intl-lens/src/i18n/key_finder.rs        *)
(***************************************************************************)
MaxPatterns == 3

\* pattern strings of a configuration: three that are regular expressions
\* and two that are not (an unclosed group, an unclosed class)
PatternSources == {"t(", "$t(", "t(seg", "(", "["}

\* Regex::new(p): Ok with the compiled pattern, or Err
RegexNew(p) ==
    CASE p = "t(" -> Some(PatternT)
      [] p = "$t(" -> Some(PatternDollarT)
      [] p = "t(seg" -> Some(PatternSegment)
      [] OTHER -> None

KeyFinderNewStopsAtInvalid(pattern_strings) ==
    IF \E i \in 1..Len(pattern_strings) : RegexNew(pattern_strings[i]) = None
    THEN LET i == CHOOSE i \in 1..Len(pattern_strings) :
                      /\ RegexNew(pattern_strings[i]) = None
                      /\ \A j \in 1..(i - 1) : RegexNew(pattern_strings[j]) # None
         IN [j \in 1..(i - 1) |-> RegexNew(pattern_strings[j])[1]]
    ELSE [j \in 1..Len(pattern_strings) |-> RegexNew(pattern_strings[j])[1]]

\* KeyFinder::new: patterns.iter().filter_map(|p| Regex::new(p).ok()).collect()
RECURSIVE KeyFinderNew(_)
KeyFinderNew(pattern_strings) ==
    IF pattern_strings = <<>> THEN <<>>
    ELSE RegexNew(Head(pattern_strings)) \o KeyFinderNew(Tail(pattern_strings))

NotBuilt == [done |-> FALSE, patterns |-> <<>>]

(***************************************************************************)
(* Requests and their answers: crates/intl-lens/src/backend.rs             *)
(***************************************************************************)
\* the one document uri of the requests
Uri == "file:///app.ts"

\* DocumentStore::new
NoDocuments == [u \in {} |-> <<>>]

\* DocumentStore::open
Open(docs, uri, found_keys) == [u \in DOMAIN docs \cup {uri} |->
                                   IF u = uri THEN found_keys ELSE docs[u]]

\* DocumentStore::update
Update(docs, uri, found_keys) ==
    IF uri \in DOMAIN docs THEN [docs EXCEPT ![uri] = found_keys] ELSE docs

\* DocumentStore::close
Close(docs, uri) == [u \in DOMAIN docs \ {uri} |-> docs[u]]

\* DocumentStore::get
Get(docs, uri) == IF uri \in DOMAIN docs THEN Some(docs[uri]) ELSE None

\* TranslationStore::get_all_translations
GetAllTranslations(t, key) ==
    [l \in { l \in DOMAIN t : key \in DOMAIN t[l] } |-> t[l][key]]

\* TranslationStore::get_all_keys, in the order the HashSet iterates
GetAllKeys(t) == IterOrder(UNION { DOMAIN t[l] : l \in DOMAIN t })

\* TranslationStore::get_translation_location; line_found is what
\* find_key_line_in_file returns
GetTranslationLocation(t, key, locale, line_found) ==
    IF locale \in DOMAIN t /\ key \in DOMAIN t[locale]
    THEN Some([file_path |-> t[locale][key].file_path,
               locale |-> t[locale][key].locale,
               line |-> IF line_found = None THEN 0 ELSE line_found[1]])
    ELSE None

\* truncate_string: s itself, or its first max_chars - 3 characters and "..."
TruncateString(s, max_chars) ==
    IF Len(s) <= max_chars THEN [all |-> TRUE, of |-> s, chars |-> Len(s)]
    ELSE [all |-> FALSE, of |-> s, chars |-> IF max_chars < 3 THEN 0 ELSE max_chars - 3]

\* get_hover_content: the markdown text, as its parts
GetHoverContent(key, store_option, source_locale) ==
    IF ~store_option.some THEN None
    ELSE LET translations == GetAllTranslations(store_option.store.translations, key)
         IN IF DOMAIN translations = {} THEN None
            ELSE Some([heading |-> key,
                       source |-> IF source_locale \in DOMAIN translations
                                  THEN <<source_locale, translations[source_locale].value>>
                                  ELSE <<>>,
                       others |-> [l \in DOMAIN translations \ {source_locale} |->
                                      translations[l].value]])

\* the prefixes extract_completion_prefix returns for the lines of the
\* requests, and what the keys can have after them
Prefixes == {"", "he", "zz"}

KeyRests == {"", "llo", "hello", "bye"}

\* str::starts_with
StartsWith(key, prefix) == \E rest \in KeyRests : key = prefix \o rest

\* get_completions
RECURSIVE CompletionItems(_, _, _, _)
CompletionItems(t, all_keys, prefix, source_locale) ==
    IF all_keys = <<>> THEN <<>>
    ELSE LET key == Head(all_keys)
             rest == CompletionItems(t, Tail(all_keys), prefix, source_locale)
         IN IF StartsWith(key, prefix) \/ prefix = ""
            THEN <<[label |-> key,
                    detail |-> GetTranslation(t, key, source_locale),
                    insert_text |-> key]>> \o rest
            ELSE rest

GetCompletions(prefix, store_option, source_locale) ==
    IF ~store_option.some THEN <<>>
    ELSE LET t == store_option.store.translations
         IN CompletionItems(t, GetAllKeys(t), prefix, source_locale)

\* get_definition_location
GetDefinitionLocation(key, store_option, source_locale, line_found) ==
    IF ~store_option.some THEN None
    ELSE LET location == GetTranslationLocation(store_option.store.translations,
                                                key, source_locale, line_found)
         IN IF location = None THEN None
            ELSE Some([uri |-> location[1].file_path, line |-> location[1].line])

\* Result: Ok(value); no handler has an Err return
Ok(handler, value) == [handler |-> handler, ok |-> TRUE, result |-> value]

NoReply == [handler |-> "none", ok |-> TRUE, result |-> None]

\* hover; found_option is what find_key_at_position returns at the position
Hover(docs, found_option, store_option, source_locale) ==
    IF Get(docs, Uri) = None THEN Ok("hover", None)
    ELSE IF found_option = None THEN Ok("hover", None)
    ELSE Ok("hover", GetHoverContent(found_option[1].key, store_option, source_locale))

\* completion; prefix_option is what extract_completion_prefix returns
Completion(docs, prefix_option, store_option, source_locale) ==
    IF Get(docs, Uri) = None THEN Ok("completion", None)
    ELSE IF prefix_option = None THEN Ok("completion", None)
    ELSE LET completions == GetCompletions(prefix_option[1], store_option, source_locale)
         IN IF completions = <<>> THEN Ok("completion", None)
            ELSE Ok("completion", Some(completions))

\* goto_definition
GotoDefinition(docs, found_option, store_option, source_locale, line_found) ==
    IF Get(docs, Uri) = None THEN Ok("goto_definition", None)
    ELSE IF found_option = None THEN Ok("goto_definition", None)
    ELSE Ok("goto_definition",
            GetDefinitionLocation(found_option[1].key, store_option, source_locale, line_found))

\* inlay_hint for a request range that is empty: a hint per found_option key that
\* has a translation in the source locale
RECURSIVE InlayHints(_, _, _)
InlayHints(t, found_keys, source_locale) ==
    IF found_keys = <<>> THEN <<>>
    ELSE LET found_key == Head(found_keys)
             translation == GetTranslation(t, found_key.key, source_locale)
             rest == InlayHints(t, Tail(found_keys), source_locale)
         IN IF translation # <<>>
            THEN <<[line |-> found_key.line,
                    after |-> found_key.end_char,
                    label |-> <<"= ", TruncateString(translation[1], 30)>>]>> \o rest
            ELSE rest

InlayHint(docs, store_option, source_locale) ==
    IF Get(docs, Uri) = None THEN Ok("inlay_hint", None)
    ELSE IF ~store_option.some THEN Ok("inlay_hint", None)
    ELSE Ok("inlay_hint",
            Some(InlayHints(store_option.store.translations, Get(docs, Uri)[1],
                            source_locale)))

MaxChangedFiles == 2

\* the paths of the uris a notification of changed files can carry, and
\* what they have before an extension
ChangedPaths == {"/locales/en.json", "/locales/en.yaml", "/locales/en.yml",
                 "/lang/en.php", "/src/app.ts"}

PathFronts == {"/locales/en", "/lang/en", "/src/app"}

\* params.changes of a notification
ChangeLists == { changes \in SUBSET ChangedPaths : Cardinality(changes) <= MaxChangedFiles }

\* str::ends_with
EndsWith(s, suffix) == \E front \in PathFronts : s = front \o suffix

\* did_change_watched_files: params.changes.iter().any(|change|
\* change.uri.path().ends_with(".json"))
DominatedChanges(changes) == \E change \in changes : EndsWith(change, ".json")

DidChangeWatchedFilesIgnoresRoot(dominated_changes, root_option, store_option, on_disk) ==
    IF dominated_changes
    THEN SomeStore(ScanAndLoad(NewStore, on_disk))
    ELSE store_option

\* did_change_watched_files, run to its end: the translation store it leaves
DidChangeWatchedFiles(dominated_changes, root_option, store_option, on_disk) ==
    IF dominated_changes /\ root_option
    THEN SomeStore(ScanAndLoad(NewStore, on_disk))
    ELSE store_option

(***************************************************************************)
(* String slicing of the requests: crates/intl-lens/src/backend.rs and     *)
(* crates/i18n-lsp/src/backend.rs                                          *)
(*                                                                         *)
(* A str is the sequence of its characters; a character takes one byte in  *)
(* UTF-8, except EAcute which takes two.  Indexing a str by a byte range   *)
(* whose end is not on a character boundary panics.                        *)
(***************************************************************************)
MaxLineChars == 4

MaxValueChars == 32

EAcute == "e-acute"

LineChars == {"t", "(", "'", "\"", "$", "k", EAcute}

Lines == SeqsUpTo(LineChars, MaxLineChars)

\* a translation value: n characters, the p-th of them EAcute (none if p = 0)
ValueOf(n, p) == [i \in 1..n |-> IF i = p THEN EAcute ELSE "k"]

Values == { ValueOf(n, p) : n \in 0..MaxValueChars, p \in 0..MaxValueChars }

\* char::len_utf8
LenUtf8(c) == IF c = EAcute THEN 2 ELSE 1

\* the byte offset at which the character after the first n ones starts
RECURSIVE ByteOffset(_, _)
ByteOffset(s, n) == IF n = 0 THEN 0 ELSE ByteOffset(s, n - 1) + LenUtf8(s[n])

\* str::len
ByteLen(s) == ByteOffset(s, Len(s))

\* str::is_char_boundary
IsCharBoundary(s, byte_index) == \E n \in 0..Len(s) : ByteOffset(s, n) = byte_index

\* the number of characters before byte offset byte_index, a character boundary
CharsBefore(s, byte_index) == CHOOSE n \in 0..Len(s) : ByteOffset(s, n) = byte_index

Panic == [panic |-> TRUE, value |-> <<>>]

Returns(value) == [panic |-> FALSE, value |-> value]

\* &s[..byte_index]
SliceTo(s, byte_index) ==
    IF IsCharBoundary(s, byte_index)
    THEN Returns(SubSeq(s, 1, CharsBefore(s, byte_index)))
    ELSE Panic

\* quote_patterns of extract_completion_prefix
quote_patterns ==
    << <<"t", "(", "\"">>, <<"t", "(", "'">>,
       <<"$", "t", "(", "\"">>, <<"$", "t", "(", "'">>,
       <<"i", "1", "8", "n", ".", "t", "(", "\"">>,
       <<"i", "1", "8", "n", ".", "t", "(", "'">> >>

\* the pattern occurs in s from character i on
OccursAt(s, pattern, i) ==
    /\ i + Len(pattern) - 1 <= Len(s)
    /\ SubSeq(s, i, i + Len(pattern) - 1) = pattern

\* str::rfind: the last occurrence, as Option of its character position
RFind(s, pattern) ==
    IF \E i \in 1..Len(s) : OccursAt(s, pattern, i)
    THEN Some(CHOOSE i \in 1..Len(s) :
                 /\ OccursAt(s, pattern, i)
                 /\ \A j \in (i + 1)..Len(s) : ~OccursAt(s, pattern, j))
    ELSE None

\* str::contains(char)
Contains(s, c) == \E i \in 1..Len(s) : s[i] = c

\* the loop of extract_completion_prefix over quote_patterns from the n-th
RECURSIVE PrefixFrom(_, _)
PrefixFrom(before_cursor, n) ==
    IF n > Len(quote_patterns) THEN None
    ELSE LET pos == RFind(before_cursor, quote_patterns[n])
         IN IF pos = None THEN PrefixFrom(before_cursor, n + 1)
            ELSE LET after_quote == pos[1] + Len(quote_patterns[n])
                     after == SubSeq(before_cursor, after_quote, Len(before_cursor))
                 IN IF ~Contains(after, "\"") /\ ~Contains(after, "'")
                    THEN Some(after)
                    ELSE PrefixFrom(before_cursor, n + 1)

Min(a, b) == IF a <= b THEN a ELSE b

\* extract_completion_prefix
ExtractCompletionPrefix(line, character) ==
    LET before_cursor == SliceTo(line, Min(character, ByteLen(line)))
    IN IF before_cursor.panic THEN Panic
       ELSE Returns(PrefixFrom(before_cursor.value, 1))

\* the display text of inlay_hint in crates/i18n-lsp: the translation, or
\* its first 27 bytes and "..." when it is longer than 30 bytes
DisplayText(translation) ==
    IF ByteLen(translation) > 30
    THEN LET head == SliceTo(translation, 27)
         IN IF head.panic THEN Panic ELSE Returns(head.value \o <<".", ".", ".">>)
    ELSE Returns(translation)

NoPrefixAsked == [done |-> FALSE, line |-> <<>>, character |-> 0, outcome |-> Returns(None)]

NoDisplayText == [done |-> FALSE, by |-> "none", translation |-> <<>>,
                  outcome |-> Returns(<<>>)]

(***************************************************************************)
(* The array-literal lexer on characters, and the parser step by step      *)
(* (crates/intl-lens/src/i18n/parser.rs, PhpLexer and PhpParser)           *)
(*                                                                         *)
(* The content is a sequence of characters and PhpLexer.pos counts the     *)
(* characters before it: next_char advances by the len_utf8 of the         *)
(* character read, and the other increments follow a starts_with of as     *)
(* many one-byte characters, so pos is always a character boundary.        *)
(***************************************************************************)
MaxPieces == 4

\* what bounded contents are written from
Pieces == { <<"[">>, <<"]">>, <<"'">>, <<"a">>, <<"=", ">">>, <<";">> }

RECURSIVE Flatten(_)
Flatten(seqs) == IF seqs = <<>> THEN <<>> ELSE Head(seqs) \o Flatten(Tail(seqs))

\* contents written by hand: the array( form, comments, escapes, numbers,
\* nesting and stray tokens
WrittenContents ==
    { <<"a", "r", "r", "a", "y", "(", "'", "a", "'", "=", ">", "'", "a", "'", ")">>,
      <<"a", "r", "r", "a", "y", "[">>,
      <<"a", "r", "r", "a", "y", "(", "[", "]", ",", "a", ")", "]">>,
      <<"/", "*", " ", "[">>,
      <<"/", "*", "[", "*", "/", " ", "[", "]">>,
      <<"/", "/", "[", NL, "#", "[", NL, "[", "1", ",", "-", "1", "]">>,
      <<"#", "[">>,
      <<"[", "'", "a", "\\", "'">>,
      <<"[", "'", "\\">>,
      <<"[", "\"", "a", "'", "\"", "]">>,
      <<"$", "a", " ", "=", " ", "[", "'", "a", "'", "=", ">", "[", "a", ",", "]", ",", "]", ";">>,
      <<"[", "a", "=", ">", ")", "]">>,
      <<"[", "=", ">", "]">>,
      <<"[", "a", "=", ">">>,
      <<"[", "[", "[", "]", "]", "a", "]", "]">> }

Contents ==
    { Flatten(pieces) : pieces \in SeqsUpTo(Pieces, MaxPieces) } \cup WrittenContents

\* char::is_whitespace, is_ascii_digit, is_alphabetic, is_alphanumeric on
\* the characters of the model
IsWhitespace(ch) == ch \in {" ", NL}

IsAsciiDigit(ch) == ch = "1"

IsAlphabetic(ch) == ch \in {"a", "r", "y"}

IsAlphanumeric(ch) == IsAlphabetic(ch) \/ IsAsciiDigit(ch)

\* the String a sequence of pushed characters makes
RECURSIVE StringOf(_)
StringOf(chars) == IF chars = <<>> THEN "" ELSE Head(chars) \o StringOf(Tail(chars))

\* PhpLexer::starts_with: the rest of the input from pos starts with s
LexerStartsWith(input, pos, s) ==
    /\ pos + Len(s) <= Len(input)
    /\ SubSeq(input, pos + 1, pos + Len(s)) = s

\* PhpLexer::peek_char
PeekChar(input, pos) == IF pos < Len(input) THEN Some(input[pos + 1]) ELSE None

\* PhpLexer::consume_until: the position after the delimiter, or the end
RECURSIVE ConsumeUntil(_, _, _)
ConsumeUntil(input, pos, delimiter) ==
    IF pos >= Len(input) THEN pos
    ELSE IF LexerStartsWith(input, pos, delimiter) THEN pos + Len(delimiter)
    ELSE ConsumeUntil(input, pos + 1, delimiter)

\* the while loop of skip_whitespace_and_comments over whitespace
RECURSIVE SkipWhitespace(_, _)
SkipWhitespace(input, pos) ==
    IF PeekChar(input, pos) # None /\ IsWhitespace(PeekChar(input, pos)[1])
    THEN SkipWhitespace(input, pos + 1)
    ELSE pos

\* PhpLexer::skip_whitespace_and_comments
RECURSIVE SkipWhitespaceAndComments(_, _)
SkipWhitespaceAndComments(input, pos) ==
    LET p == SkipWhitespace(input, pos)
    IN IF LexerStartsWith(input, p, <<"/", "/">>)
       THEN SkipWhitespaceAndComments(input, ConsumeUntil(input, p, <<NL>>))
       ELSE IF LexerStartsWith(input, p, <<"#">>)
       THEN SkipWhitespaceAndComments(input, ConsumeUntil(input, p, <<NL>>))
       ELSE IF LexerStartsWith(input, p, <<"/", "*">>)
       THEN SkipWhitespaceAndComments(input, ConsumeUntil(input, p + 2, <<"*", "/">>))
       ELSE p

\* PhpLexer::read_string: up to the closing quote or the end of the input;
\* a backslash takes the next character as it is
RECURSIVE ReadString(_, _, _, _)
ReadString(input, pos, quote, result) ==
    IF pos >= Len(input) THEN [value |-> result, pos |-> pos]
    ELSE LET ch == input[pos + 1]
         IN IF ch = quote THEN [value |-> result, pos |-> pos + 1]
            ELSE IF ch = "\\"
            THEN IF pos + 1 < Len(input)
                 THEN ReadString(input, pos + 2, quote, Append(result, input[pos + 2]))
                 ELSE ReadString(input, pos + 1, quote, result)
            ELSE ReadString(input, pos + 1, quote, Append(result, ch))

\* PhpLexer::read_ident
RECURSIVE ReadIdent(_, _, _)
ReadIdent(input, pos, result) ==
    IF PeekChar(input, pos) # None
       /\ (IsAlphanumeric(input[pos + 1]) \/ input[pos + 1] \in {"_", "-"})
    THEN ReadIdent(input, pos + 1, Append(result, input[pos + 1]))
    ELSE [value |-> result, pos |-> pos]

\* PhpLexer::read_number
RECURSIVE ReadNumber(_, _, _)
ReadNumber(input, pos, result) ==
    IF PeekChar(input, pos) # None
       /\ (IsAsciiDigit(input[pos + 1]) \/ input[pos + 1] = ".")
    THEN ReadNumber(input, pos + 1, Append(result, input[pos + 1]))
    ELSE [value |-> result, pos |-> pos]

\* what one call of PhpLexer::next_token does before it returns or calls
\* itself again: again is the `return self.next_token()` of the arms of ';'
\* and of the characters no token starts with
Lexed(token, pos) == [again |-> FALSE, token |-> token, pos |-> pos]

Again(pos) == [again |-> TRUE, token |-> None, pos |-> pos]

LexerNextToken(input, pos) ==
    LET p == SkipWhitespaceAndComments(input, pos)
    IN IF p >= Len(input) THEN Lexed(None, p)
       ELSE IF LexerStartsWith(input, p, <<"=", ">">>) THEN Lexed(Some(Arrow), p + 2)
       ELSE LET ch == input[p + 1]
            IN CASE ch = "[" -> Lexed(Some(LBracket), p + 1)
                 [] ch = "]" -> Lexed(Some(RBracket), p + 1)
                 [] ch = "(" -> Lexed(Some(LParen), p + 1)
                 [] ch = ")" -> Lexed(Some(RParen), p + 1)
                 [] ch = "," -> Lexed(Some(Comma), p + 1)
                 [] ch \in {"'", "\""} ->
                        LET r == ReadString(input, p + 1, ch, <<>>)
                        IN Lexed(Some(StringTok(StringOf(r.value))), r.pos)
                 [] ch = ";" -> Again(p + 1)
                 [] IsAsciiDigit(ch) \/ ch = "-" ->
                        LET r == ReadNumber(input, p + 1, <<ch>>)
                        IN Lexed(Some(NumberTok(StringOf(r.value))), r.pos)
                 [] IsAlphabetic(ch) \/ ch = "_" ->
                        LET r == ReadIdent(input, p + 1, <<ch>>)
                        IN Lexed(Some(IdentTok(StringOf(r.value))), r.pos)
                 [] OTHER -> Again(p + 1)

TakeLeavesToken(option) == option

\* Option::take of PhpParser::next_token: the lookahead is left empty
Take(option) == None

\* an activation of parse_array: the closing token it waits for, which
\* parse_value of the item it is at (key_or_value or value), and whether a
\* token was taken since the iteration of its item loop began
Frame(end_kind, stage, took) == [end_kind |-> end_kind, stage |-> stage, took |-> took]

Top(stack) == stack[Len(stack)]

Pop(stack) == SubSeq(stack, 1, Len(stack) - 1)

\* a token was taken while the activation on top was running
Took(stack) ==
    IF stack = <<>> THEN stack
    ELSE [stack EXCEPT ![Len(stack)] = [@ EXCEPT !.took = TRUE]]

NoOutcome == "running"

(***************************************************************************)
(* The read-write locks of the backend (crates/intl-lens/src/backend.rs)   *)
(*                                                                         *)
(* Each field of I18nBackend sits behind a tokio RwLock, which serves its  *)
(* waiters first come first served: a reader that asks after a writer has  *)
(* started to wait is served after that writer.  A handler is followed     *)
(* from one lock operation to the next.  `*lock.write().await = value` and *)
(* the other guards that live for one statement or block are taken and     *)
(* dropped in one step; the guards a handler still holds when it returns   *)
(* are dropped together.                                                   *)
(***************************************************************************)
MaxHandlers == 2

RwLocks == {"documents", "key_finder", "translation_store", "config", "workspace_root"}

\* the lock operations of a handler, in program order
Hold(lock, mode) == [op |-> "hold", lock |-> lock, mode |-> mode]

Touch(lock, mode) == [op |-> "touch", lock |-> lock, mode |-> mode]

\* an early return the data decides: no such document, no key at the
\* position, no prefix, no root folder, no resource file among the changes
MayReturn == [op |-> "may_return", lock |-> "", mode |-> ""]

\* `if let Some(root) = workspace_root.as_ref()`
IfRoot == [op |-> "if_root", lock |-> "", mode |-> ""]

\* initialize, with initialize_workspace
InitializeLocks ==
    <<MayReturn, Touch("key_finder", "write"), Touch("translation_store", "write"),
      Touch("config", "write"), Touch("workspace_root", "write")>>

\* hover and goto_definition, with get_hover_content / get_definition_location
HoverLocks ==
    <<Hold("documents", "read"), MayReturn, Hold("key_finder", "read"), MayReturn,
      Hold("translation_store", "read"), Hold("config", "read")>>

\* completion, with get_completions
CompletionLocks ==
    <<Hold("documents", "read"), MayReturn, Hold("translation_store", "read"),
      Hold("config", "read")>>

InlayHintLocks ==
    <<Touch("config", "read"), Hold("documents", "read"), MayReturn,
      Hold("key_finder", "read"), Hold("translation_store", "read")>>

\* did_open and did_change, with diagnose_document and compute_diagnostics
DidOpenLocks ==
    <<Touch("documents", "write"), Hold("key_finder", "read"),
      Hold("translation_store", "read")>>

DidCloseLocks == <<Touch("documents", "write")>>

DidChangeWatchedFilesLocksAlwaysWrites ==
    <<MayReturn, Hold("workspace_root", "read"), Hold("config", "read"),
      Touch("translation_store", "write")>>

DidChangeWatchedFilesLocks ==
    <<MayReturn, Hold("workspace_root", "read"), Hold("config", "read"), IfRoot,
      Touch("translation_store", "write")>>

HandlerKinds ==
    <<"hover", "completion", "inlay_hint", "did_open", "did_close", "did_change_watched_files">>

LocksOf(kind) ==
    CASE kind = "initialize" -> InitializeLocks
      [] kind = "hover" -> HoverLocks
      [] kind = "completion" -> CompletionLocks
      [] kind = "inlay_hint" -> InlayHintLocks
      [] kind = "did_open" -> DidOpenLocks
      [] kind = "did_close" -> DidCloseLocks
      [] kind = "did_change_watched_files" -> DidChangeWatchedFilesLocks

\* the tasks: 0 runs initialize, the others one request or notification each
Tasks == 0..MaxHandlers

\* a lock nobody holds or waits for
FreeLock == [readers |-> {}, writer |-> {}, queue |-> <<>>]

\* the lock can be given in this mode to one more task
Compatible(l, mode) ==
    IF mode = "read" THEN l.writer = {} ELSE l.writer = {} /\ l.readers = {}

Granted(l, task, mode) ==
    IF mode = "read" THEN [l EXCEPT !.readers = @ \cup {task}]
    ELSE [l EXCEPT !.writer = {task}]

Waiting(l, task, mode) == [l EXCEPT !.queue = Append(@, [task |-> task, mode |-> mode])]

Served(l) == [l EXCEPT !.queue = Tail(@)]

Dropped(l, task) == [l EXCEPT !.readers = @ \ {task}, !.writer = @ \ {task}]

(***************************************************************************)
(* Idle values: what a specification pins the other components to          *)
(***************************************************************************)
StoreIdle ==
    /\ disk = <<>>
    /\ store = NewStore
    /\ spc = "idle"
    /\ sidx = 0
    /\ before = EmptyMap
    /\ observed = NoObservation

FlatIdle ==
    /\ tree = JNull
    /\ flat = NotFlattened

FinderIdle ==
    /\ patterns = <<>>
    /\ text = <<>>
    /\ found = NotFound
    /\ at_position = NotAsked

DiagIdle ==
    /\ index = NoStore
    /\ usage = <<>>
    /\ diagnostics = NotComputed

BackendIdle ==
    /\ files = <<>>
    /\ files_seen = {}
    /\ translation_store = NoStore
    /\ workspace_root = FALSE
    /\ pc = [h \in Handlers |-> "idle"]
    /\ new_store = [h \in {"initialize", "watched_files"} |-> NewStore]
    /\ widx = 0
    /\ readers = NoReaders
    /\ doc = <<>>
    /\ published = NothingPublished
    /\ done = NothingDone

PhpIdle ==
    /\ php_source = TokenSource
    /\ php_tokens = <<>>
    /\ php_result = NotParsed

LocaleIdle ==
    /\ res_path = [parent |-> <<>>, stem |-> <<>>]
    /\ inferred = NotInferred

ConfigIdle ==
    /\ cfg_files = <<>>
    /\ workspace = [frameworks |-> {}, arb_dir |-> None, exists |-> {}]
    /\ loaded = NotLoaded

NewIdle ==
    /\ configured = <<>>
    /\ compiled = NotBuilt

RequestIdle ==
    /\ documents = NoDocuments
    /\ reply = NoReply

TextIdle ==
    /\ completion_prefix = NoPrefixAsked
    /\ display_text = NoDisplayText

RunIdle ==
    /\ php_content = <<>>
    /\ next_tokens = <<>>
    /\ lexer_pos = 0
    /\ lookahead = None
    /\ end_reported = FALSE
    /\ parser_at = "idle"
    /\ frames = <<>>
    /\ lexed = <<>>
    /\ outcome = NoOutcome

LockIdle ==
    /\ rwlocks = <<>>
    /\ tasks = <<>>
    /\ root_set = FALSE

ReloadIdle ==
    /\ notified = 0
    /\ scans = <<>>

(***************************************************************************)
(* SpecFlatten: a resource file's value tree is flattened                  *)
(***************************************************************************)
InitFlatten ==
    /\ tree \in Trees
    /\ flat = NotFlattened
    /\ StoreIdle
    /\ FinderIdle
    /\ DiagIdle
    /\ BackendIdle
    /\ PhpIdle
    /\ LocaleIdle
    /\ ConfigIdle
    /\ NewIdle
    /\ RequestIdle
    /\ TextIdle
    /\ ReloadIdle
    /\ LockIdle
    /\ RunIdle

FlattenParseJson ==
    /\ ~flat.done
    /\ flat' = [done |-> TRUE, map |-> ParseJson(tree),
                 php |-> ParsePhp(PhpFormOfJson(tree))]
    /\ UNCHANGED tree
    /\ UNCHANGED nonFlatVars

NextFlatten == FlattenParseJson

SpecFlatten == InitFlatten /\ [][NextFlatten]_vars

(***************************************************************************)
(* SpecStore: one thread scans, then reloads; a reader queries at any time *)
(***************************************************************************)
InitStore ==
    /\ disk \in Disks
    /\ store = NewStore
    /\ spc = "scan"
    /\ sidx = 0
    /\ before = EmptyMap
    /\ observed = NoObservation
    /\ FlatIdle
    /\ FinderIdle
    /\ DiagIdle
    /\ BackendIdle
    /\ PhpIdle
    /\ LocaleIdle
    /\ ConfigIdle
    /\ NewIdle
    /\ RequestIdle
    /\ TextIdle
    /\ ReloadIdle
    /\ LockIdle
    /\ RunIdle

\* scan_and_load / scan_directory: the next file of the walk
StoreScanFile ==
    /\ spc \in {"scan", "reload_scan"}
    /\ sidx < Len(disk)
    /\ store' = ScanStep(store, disk, sidx + 1)
    /\ sidx' = sidx + 1
    /\ UNCHANGED <<disk, spc, before, observed>>
    /\ UNCHANGED nonStoreVars

\* the walk is exhausted: scan_and_load returns
StoreScanDone ==
    /\ spc \in {"scan", "reload_scan"}
    /\ sidx = Len(disk)
    /\ spc' = "ready"
    /\ UNCHANGED <<disk, store, sidx, before, observed>>
    /\ UNCHANGED nonStoreVars

\* TranslationStore::reload, first statement: self.translations.clear()
StoreReloadClearTranslations ==
    /\ spc = "ready"
    /\ before' = store.translations
    /\ store' = [store EXCEPT !.translations = EmptyMap]
    /\ spc' = "reload_cleared"
    /\ UNCHANGED <<disk, sidx, observed>>
    /\ UNCHANGED nonStoreVars

\* TranslationStore::reload, second statement: self.locale_files.clear(),
\* then scan_and_load starts its walk
StoreReloadClearFiles ==
    /\ spc = "reload_cleared"
    /\ store' = [store EXCEPT !.locale_files = EmptyMap]
    /\ sidx' = 0
    /\ spc' = "reload_scan"
    /\ UNCHANGED <<disk, before, observed>>
    /\ UNCHANGED nonStoreVars

\* A reader thread calls key_exists, get_missing_locales and get_locales
StoreQuery ==
    /\ \E key \in Keys :
          observed' = Observation(store.translations, key,
                                  spc \in {"reload_cleared", "reload_scan"})
    /\ UNCHANGED <<disk, store, spc, sidx, before>>
    /\ UNCHANGED nonStoreVars

NextStore ==
    \/ StoreScanFile
    \/ StoreScanDone
    \/ StoreReloadClearTranslations
    \/ StoreReloadClearFiles
    \/ StoreQuery

SpecStore == InitStore /\ [][NextStore]_vars

(***************************************************************************)
(* SpecFinder: a key finder is built, then asked about one document        *)
(***************************************************************************)
InitFinder ==
    /\ patterns \in PatternLists
    /\ text \in Texts
    /\ found = NotFound
    /\ at_position = NotAsked
    /\ StoreIdle
    /\ FlatIdle
    /\ DiagIdle
    /\ BackendIdle
    /\ PhpIdle
    /\ LocaleIdle
    /\ ConfigIdle
    /\ NewIdle
    /\ RequestIdle
    /\ TextIdle
    /\ ReloadIdle
    /\ LockIdle
    /\ RunIdle

\* find_keys(content)
FinderFindKeys ==
    /\ ~found.done
    /\ found' = [done |-> TRUE, keys |-> FindKeys(patterns, text)]
    /\ UNCHANGED <<patterns, text, at_position>>
    /\ UNCHANGED nonFinderVars

\* find_key_at_position(content, line, character)
FinderFindKeyAtPosition ==
    /\ found.done
    /\ ~at_position.asked
    /\ \E line \in 0..MaxLine, character \in 0..MaxChar :
          at_position' = [asked |-> TRUE, line |-> line, character |-> character,
                          result |-> FindKeyAtPosition(patterns, text, line, character)]
    /\ UNCHANGED <<patterns, text, found>>
    /\ UNCHANGED nonFinderVars

NextFinder ==
    \/ FinderFindKeys
    \/ FinderFindKeyAtPosition

SpecFinder == InitFinder /\ [][NextFinder]_vars

(***************************************************************************)
(* SpecDiag: compute_diagnostics on one document and one index             *)
(***************************************************************************)
InitDiag ==
    /\ index \in {NoStore} \cup { SomeStore(ScanAndLoad(NewStore, d)) : d \in Disks }
    /\ usage \in FoundLists
    /\ diagnostics = NotComputed
    /\ StoreIdle
    /\ FlatIdle
    /\ FinderIdle
    /\ BackendIdle
    /\ PhpIdle
    /\ LocaleIdle
    /\ ConfigIdle
    /\ NewIdle
    /\ RequestIdle
    /\ TextIdle
    /\ ReloadIdle
    /\ LockIdle
    /\ RunIdle

\* compute_diagnostics(content)
DiagCompute ==
    /\ ~diagnostics.done
    /\ diagnostics' = [done |-> TRUE, list |-> ComputeDiagnostics(usage, index)]
    /\ UNCHANGED <<index, usage>>
    /\ UNCHANGED nonDiagVars

NextDiag == DiagCompute

SpecDiag == InitDiag /\ [][NextDiag]_vars

(***************************************************************************)
(* SpecBackend: initialize, watched-files reloads and diagnostic passes of *)
(* one I18nBackend, interleaved at their await points.  The resource files *)
(* change only while no reload is running.                                 *)
(***************************************************************************)
InitBackend ==
    /\ files \in BackendDisks
    /\ files_seen = {files}
    /\ translation_store = NoStore
    /\ workspace_root = FALSE
    /\ pc = [h \in Handlers |-> IF h = "initialize" THEN "start" ELSE "idle"]
    /\ new_store = [h \in {"initialize", "watched_files"} |-> NewStore]
    /\ widx = 0
    /\ readers = NoReaders
    /\ doc = <<>>
    /\ published = NothingPublished
    /\ done = NothingDone
    /\ StoreIdle
    /\ FlatIdle
    /\ FinderIdle
    /\ DiagIdle
    /\ PhpIdle
    /\ LocaleIdle
    /\ ConfigIdle
    /\ NewIdle
    /\ RequestIdle
    /\ TextIdle
    /\ ReloadIdle
    /\ LockIdle
    /\ RunIdle

\* initialize whose params carry no root: initialize_workspace is not called
InitializeNoRoot ==
    /\ pc["initialize"] = "start"
    /\ pc' = [pc EXCEPT !["initialize"] = "done"]
    /\ UNCHANGED <<files, files_seen, translation_store, workspace_root, new_store,
                   widx, readers, doc, published, done>>
    /\ UNCHANGED nonBackendVars

\* initialize_workspace: *self.key_finder.write().await = key_finder, then
\* TranslationStore::new, scan_and_load, up to the await of log_message
InitializeScanAndLoad ==
    /\ pc["initialize"] = "start"
    /\ CanWrite(readers, "key_finder")
    /\ new_store' = [new_store EXCEPT !["initialize"] = ScanAndLoad(NewStore, files)]
    /\ pc' = [pc EXCEPT !["initialize"] = "store"]
    /\ UNCHANGED <<files, files_seen, translation_store, workspace_root,
                   widx, readers, doc, published, done>>
    /\ UNCHANGED nonBackendVars

\* initialize_workspace: *self.translation_store.write().await = Some(store)
InitializeWriteStore ==
    /\ pc["initialize"] = "store"
    /\ CanWrite(readers, "translation_store")
    /\ translation_store' = SomeStore(new_store["initialize"])
    /\ pc' = [pc EXCEPT !["initialize"] = "config"]
    /\ UNCHANGED <<files, files_seen, workspace_root, new_store,
                   widx, readers, doc, published, done>>
    /\ UNCHANGED nonBackendVars

\* initialize_workspace: *self.config.write().await = config
InitializeWriteConfig ==
    /\ pc["initialize"] = "config"
    /\ CanWrite(readers, "config")
    /\ pc' = [pc EXCEPT !["initialize"] = "root"]
    /\ UNCHANGED <<files, files_seen, translation_store, workspace_root, new_store,
                   widx, readers, doc, published, done>>
    /\ UNCHANGED nonBackendVars

\* initialize_workspace: *self.workspace_root.write().await = Some(root)
InitializeWriteRoot ==
    /\ pc["initialize"] = "root"
    /\ CanWrite(readers, "workspace_root")
    /\ workspace_root' = TRUE
    /\ pc' = [pc EXCEPT !["initialize"] = "done"]
    /\ UNCHANGED <<files, files_seen, translation_store, new_store,
                   widx, readers, doc, published, done>>
    /\ UNCHANGED nonBackendVars

\* the resource files are edited on disk, to a content they never had
FilesChange ==
    /\ pc["watched_files"] = "idle"
    /\ Cardinality(files_seen) <= MaxChanges
    /\ \E d \in BackendDisks \ files_seen :
          /\ files' = d
          /\ files_seen' = files_seen \cup {d}
    /\ UNCHANGED <<translation_store, workspace_root, pc, new_store,
                   widx, readers, doc, published, done>>
    /\ UNCHANGED nonBackendVars

\* did_change_watched_files: the changes are inspected; with a change whose
\* path ends in ".json" the handler takes workspace_root.read()
WatchedFilesStart ==
    /\ pc["watched_files"] = "idle"
    /\ done.reloads < MaxReloads
    /\ \E dominated_changes \in BOOLEAN :
          IF dominated_changes
          THEN /\ readers' = Acquire(readers, "workspace_root", "watched_files")
               /\ pc' = [pc EXCEPT !["watched_files"] = "root_read"]
          ELSE UNCHANGED <<readers, pc>>
    /\ done' = [done EXCEPT !.reloads = @ + 1]
    /\ UNCHANGED <<files, files_seen, translation_store, workspace_root, new_store,
                   widx, doc, published>>
    /\ UNCHANGED nonBackendVars

\* did_change_watched_files: self.config.read().await
WatchedFilesReadConfig ==
    /\ pc["watched_files"] = "root_read"
    /\ readers' = Acquire(readers, "config", "watched_files")
    /\ pc' = [pc EXCEPT !["watched_files"] = "config_read"]
    /\ UNCHANGED <<files, files_seen, translation_store, workspace_root, new_store,
                   widx, doc, published, done>>
    /\ UNCHANGED nonBackendVars

\* did_change_watched_files: `if let Some(root)`; without a root the guards
\* are dropped, with one the local store is created
WatchedFilesCheckRoot ==
    /\ pc["watched_files"] = "config_read"
    /\ IF workspace_root
       THEN /\ translation_store' = WatchCreateStore(translation_store).live
            /\ new_store' = [new_store EXCEPT
                                !["watched_files"] = WatchCreateStore(translation_store).store]
            /\ widx' = 0
            /\ pc' = [pc EXCEPT !["watched_files"] = "scan"]
            /\ UNCHANGED readers
       ELSE /\ readers' = Release(Release(readers, "config", "watched_files"),
                                  "workspace_root", "watched_files")
            /\ pc' = [pc EXCEPT !["watched_files"] = "idle"]
            /\ UNCHANGED <<translation_store, new_store, widx>>
    /\ UNCHANGED <<files, files_seen, workspace_root, doc, published, done>>
    /\ UNCHANGED nonBackendVars

\* did_change_watched_files: scan_and_load loads the next file of the walk
\* into the local store
WatchedFilesScanFile ==
    /\ pc["watched_files"] = "scan"
    /\ widx < Len(files)
    /\ new_store' = [new_store EXCEPT
                        !["watched_files"] = ScanStep(@, files, widx + 1)]
    /\ widx' = widx + 1
    /\ UNCHANGED <<files, files_seen, translation_store, workspace_root, pc,
                   readers, doc, published, done>>
    /\ UNCHANGED nonBackendVars

\* did_change_watched_files: the walk is over; get_locales, get_all_keys,
\* log_message
WatchedFilesScanDone ==
    /\ pc["watched_files"] = "scan"
    /\ widx = Len(files)
    /\ pc' = [pc EXCEPT !["watched_files"] = "publish"]
    /\ UNCHANGED <<files, files_seen, translation_store, workspace_root, new_store,
                   widx, readers, doc, published, done>>
    /\ UNCHANGED nonBackendVars

\* did_change_watched_files: *self.translation_store.write().await =
\* Some(store), then the read guards are dropped
WatchedFilesWriteStore ==
    /\ pc["watched_files"] = "publish"
    /\ CanWrite(readers, "translation_store")
    /\ translation_store' = SomeStore(new_store["watched_files"])
    /\ readers' = Release(Release(readers, "config", "watched_files"),
                          "workspace_root", "watched_files")
    /\ pc' = [pc EXCEPT !["watched_files"] = "idle"]
    /\ UNCHANGED <<files, files_seen, workspace_root, new_store, widx, doc,
                   published, done>>
    /\ UNCHANGED nonBackendVars

\* did_open: the document is stored; compute_diagnostics takes
\* key_finder.read() and runs find_keys
DidOpenFindKeys ==
    /\ pc["did_open"] = "idle"
    /\ done.passes < MaxPasses
    /\ \E found_keys \in BackendDocs : doc' = found_keys
    /\ readers' = Acquire(readers, "key_finder", "did_open")
    /\ pc' = [pc EXCEPT !["did_open"] = "found"]
    /\ done' = [done EXCEPT !.passes = @ + 1]
    /\ UNCHANGED <<files, files_seen, translation_store, workspace_root, new_store,
                   widx, published>>
    /\ UNCHANGED nonBackendVars

\* compute_diagnostics: self.translation_store.read().await
DidOpenReadStore ==
    /\ pc["did_open"] = "found"
    /\ readers' = Acquire(readers, "translation_store", "did_open")
    /\ pc' = [pc EXCEPT !["did_open"] = "store_read"]
    /\ UNCHANGED <<files, files_seen, translation_store, workspace_root, new_store,
                   widx, doc, published, done>>
    /\ UNCHANGED nonBackendVars

\* compute_diagnostics: the loop under the read guard, the guards dropped at
\* return; diagnose_document publishes the list
DidOpenPublish ==
    /\ pc["did_open"] = "store_read"
    /\ published' = [done |-> TRUE,
                     doc |-> doc,
                     list |-> ComputeDiagnostics(doc, translation_store),
                     during |-> pc["watched_files"],
                     loaded |-> widx]
    /\ readers' = Release(Release(readers, "translation_store", "did_open"),
                          "key_finder", "did_open")
    /\ pc' = [pc EXCEPT !["did_open"] = "idle"]
    /\ UNCHANGED <<files, files_seen, translation_store, workspace_root, new_store,
                   widx, doc, done>>
    /\ UNCHANGED nonBackendVars

NextBackend ==
    \/ InitializeNoRoot
    \/ InitializeScanAndLoad
    \/ InitializeWriteStore
    \/ InitializeWriteConfig
    \/ InitializeWriteRoot
    \/ FilesChange
    \/ WatchedFilesStart
    \/ WatchedFilesReadConfig
    \/ WatchedFilesCheckRoot
    \/ WatchedFilesScanFile
    \/ WatchedFilesScanDone
    \/ WatchedFilesWriteStore
    \/ DidOpenFindKeys
    \/ DidOpenReadStore
    \/ DidOpenPublish

SpecBackend == InitBackend /\ [][NextBackend]_vars

(***************************************************************************)
(* SpecPhp: parse_php on the token stream of one array-literal file        *)
(***************************************************************************)
InitPhp ==
    /\ \/ \E t \in ContainerTrees :
             /\ php_source = JsonSource(t)
             /\ php_tokens = PhpFormOfJson(t)
       \/ \E l \in PhpLiterals :
             /\ php_source = LiteralSource(l)
             /\ php_tokens = TokensOfLiteral(l, FALSE)
       \/ /\ php_source = TokenSource
          /\ php_tokens \in TokenStreams
    /\ php_result = NotParsed
    /\ StoreIdle
    /\ FlatIdle
    /\ FinderIdle
    /\ DiagIdle
    /\ BackendIdle
    /\ LocaleIdle
    /\ ConfigIdle
    /\ NewIdle
    /\ RequestIdle
    /\ TextIdle
    /\ ReloadIdle
    /\ LockIdle
    /\ RunIdle

\* TranslationParser::parse_php(content)
PhpParse ==
    /\ ~php_result.done
    /\ php_result' = ParsePhp(php_tokens)
    /\ UNCHANGED <<php_source, php_tokens>>
    /\ UNCHANGED nonPhpVars

NextPhp == PhpParse

SpecPhp == InitPhp /\ [][NextPhp]_vars

(***************************************************************************)
(* SpecLocale: extract_locale_from_path on the path of one resource file   *)
(***************************************************************************)
InitLocale ==
    /\ res_path \in [parent : ParentNames, stem : (Names \ {<<>>}) \cup {NotUtf8}]
    /\ inferred = NotInferred
    /\ StoreIdle
    /\ FlatIdle
    /\ FinderIdle
    /\ DiagIdle
    /\ BackendIdle
    /\ PhpIdle
    /\ ConfigIdle
    /\ NewIdle
    /\ RequestIdle
    /\ TextIdle
    /\ ReloadIdle
    /\ LockIdle
    /\ RunIdle

\* scan_directory calls extract_locale_from_path(path)
LocaleExtract ==
    /\ ~inferred.done
    /\ inferred' = [done |-> TRUE, result |-> ExtractLocaleFromPath(res_path)]
    /\ UNCHANGED res_path
    /\ UNCHANGED nonLocaleVars

NextLocale == LocaleExtract

SpecLocale == InitLocale /\ [][NextLocale]_vars

(***************************************************************************)
(* SpecConfig: load_from_workspace on one workspace root                   *)
(***************************************************************************)
InitConfig ==
    /\ cfg_files \in [1..Len(config_paths) -> Candidates]
    /\ workspace \in Workspaces
    /\ loaded = NotLoaded
    /\ StoreIdle
    /\ FlatIdle
    /\ FinderIdle
    /\ DiagIdle
    /\ BackendIdle
    /\ PhpIdle
    /\ LocaleIdle
    /\ NewIdle
    /\ RequestIdle
    /\ TextIdle
    /\ ReloadIdle
    /\ LockIdle
    /\ RunIdle

\* I18nConfig::load_from_workspace(root)
ConfigLoad ==
    /\ ~loaded.done
    /\ loaded' = [done |-> TRUE,
                  from |-> LoadFromWorkspace(cfg_files, workspace, 1).from,
                  config |-> LoadFromWorkspace(cfg_files, workspace, 1).config]
    /\ UNCHANGED <<cfg_files, workspace>>
    /\ UNCHANGED nonConfigVars

NextConfig == ConfigLoad

SpecConfig == InitConfig /\ [][NextConfig]_vars

(***************************************************************************)
(* SpecNew: KeyFinder::new on one list of configured pattern strings       *)
(***************************************************************************)
InitNew ==
    /\ configured \in SeqsUpTo(PatternSources, MaxPatterns)
    /\ compiled = NotBuilt
    /\ StoreIdle
    /\ FlatIdle
    /\ FinderIdle
    /\ DiagIdle
    /\ BackendIdle
    /\ PhpIdle
    /\ LocaleIdle
    /\ ConfigIdle
    /\ RequestIdle
    /\ TextIdle
    /\ ReloadIdle
    /\ LockIdle
    /\ RunIdle

\* KeyFinder::new(&config.function_patterns)
NewBuild ==
    /\ ~compiled.done
    /\ compiled' = [done |-> TRUE, patterns |-> KeyFinderNew(configured)]
    /\ UNCHANGED configured
    /\ UNCHANGED nonNewVars

NextNew == NewBuild

SpecNew == InitNew /\ [][NextNew]_vars

(***************************************************************************)
(* SpecRequests: initialize, then requests and notifications in any        *)
(* order, each handled to its end before the next                          *)
(***************************************************************************)
InitRequests ==
    /\ files \in BackendDisks
    /\ files_seen = {files}
    /\ translation_store = NoStore
    /\ workspace_root = FALSE
    /\ pc = [h \in Handlers |-> IF h = "initialize" THEN "start" ELSE "idle"]
    /\ new_store = [h \in {"initialize", "watched_files"} |-> NewStore]
    /\ widx = 0
    /\ readers = NoReaders
    /\ doc = <<>>
    /\ published = NothingPublished
    /\ done = NothingDone
    /\ documents = NoDocuments
    /\ reply = NoReply
    /\ StoreIdle
    /\ FlatIdle
    /\ FinderIdle
    /\ DiagIdle
    /\ PhpIdle
    /\ LocaleIdle
    /\ ConfigIdle
    /\ NewIdle
    /\ TextIdle
    /\ ReloadIdle
    /\ LockIdle
    /\ RunIdle

Initialized == pc["initialize"] = "done"

\* initialize: with a root in the params initialize_workspace runs, without
\* one nothing is set
RequestInitialize ==
    /\ pc["initialize"] = "start"
    /\ \E root_path \in BOOLEAN :
          IF root_path
          THEN /\ translation_store' = SomeStore(ScanAndLoad(NewStore, files))
               /\ workspace_root' = TRUE
          ELSE UNCHANGED <<translation_store, workspace_root>>
    /\ pc' = [pc EXCEPT !["initialize"] = "done"]
    /\ reply' = Ok("initialize", None)
    /\ UNCHANGED <<files, files_seen, new_store, widx, readers, doc, published, done,
                   documents>>
    /\ UNCHANGED nonRequestVars

\* the resource files are edited on disk
RequestFilesChange ==
    /\ Initialized
    /\ \E on_disk \in BackendDisks \ {files} :
          /\ files' = on_disk
          /\ files_seen' = files_seen \cup {on_disk}
    /\ UNCHANGED <<translation_store, workspace_root, pc, new_store, widx, readers, doc,
                   published, done, documents, reply>>
    /\ UNCHANGED nonRequestVars

\* did_change_watched_files, the resource files being what they then are
RequestWatchedFiles ==
    /\ Initialized
    /\ \E changes \in ChangeLists :
          LET dominated_changes == DominatedChanges(changes)
          IN /\ translation_store' = DidChangeWatchedFiles(dominated_changes, workspace_root,
                                                           translation_store, files)
             /\ done' = [done EXCEPT !.reloads =
                            IF dominated_changes /\ @ < MaxReloads THEN @ + 1 ELSE @]
             /\ reply' = Ok("watched_files", Some(changes))
    /\ UNCHANGED <<files, files_seen, workspace_root, pc, new_store, widx, readers, doc,
                   published, documents>>
    /\ UNCHANGED nonRequestVars

\* did_open: the document is stored and its diagnostics are published
RequestDidOpen ==
    /\ Initialized
    /\ \E found_keys \in BackendDocs :
          /\ documents' = Open(documents, Uri, found_keys)
          /\ reply' = Ok("did_open", ComputeDiagnostics(found_keys, translation_store))
    /\ UNCHANGED backendVars
    /\ UNCHANGED nonRequestVars

\* did_change: with a content change the document, if open, is updated and
\* the diagnostics of the new content are published
RequestDidChange ==
    /\ Initialized
    /\ \E has_change \in BOOLEAN, found_keys \in BackendDocs :
          IF has_change
          THEN /\ documents' = Update(documents, Uri, found_keys)
               /\ reply' = Ok("did_change",
                              ComputeDiagnostics(found_keys, translation_store))
          ELSE /\ reply' = Ok("did_change_nothing", None)
               /\ UNCHANGED documents
    /\ UNCHANGED backendVars
    /\ UNCHANGED nonRequestVars

\* did_close
RequestDidClose ==
    /\ Initialized
    /\ documents' = Close(documents, Uri)
    /\ reply' = Ok("did_close", None)
    /\ UNCHANGED backendVars
    /\ UNCHANGED nonRequestVars

\* the answers find_key_at_position can give in the document
FoundAt(docs) ==
    {None} \cup (IF Uri \in DOMAIN docs
                 THEN { Some(docs[Uri][n]) : n \in 1..Len(docs[Uri]) }
                 ELSE {})

RequestHover ==
    /\ Initialized
    /\ \E found_option \in FoundAt(documents) :
          reply' = Hover(documents, found_option, translation_store, default_source_locale)
    /\ UNCHANGED documents
    /\ UNCHANGED backendVars
    /\ UNCHANGED nonRequestVars

RequestCompletion ==
    /\ Initialized
    /\ \E prefix_option \in {None} \cup { Some(x) : x \in Prefixes } :
          reply' = Completion(documents, prefix_option, translation_store,
                              default_source_locale)
    /\ UNCHANGED documents
    /\ UNCHANGED backendVars
    /\ UNCHANGED nonRequestVars

\* goto_definition; line_found is what find_key_line_in_file returns for the
\* file and key. When get_translation_location is called the call is kept
\* with the answer: its key, the outcome of the line search and its result
RequestGotoDefinition ==
    /\ Initialized
    /\ \E found_option \in FoundAt(documents), line_found \in {None, Some(1)} :
          LET answer == GotoDefinition(documents, found_option, translation_store,
                                       default_source_locale, line_found)
          IN IF found_option # None /\ translation_store.some
             THEN reply' = [handler |-> answer.handler, ok |-> answer.ok,
                            result |-> answer.result,
                            key |-> found_option[1].key,
                            line_found |-> line_found,
                            location |-> GetTranslationLocation(
                                             translation_store.store.translations,
                                             found_option[1].key,
                                             default_source_locale, line_found)]
             ELSE reply' = answer
    /\ UNCHANGED documents
    /\ UNCHANGED backendVars
    /\ UNCHANGED nonRequestVars

RequestInlayHint ==
    /\ Initialized
    /\ reply' = InlayHint(documents, translation_store, default_source_locale)
    /\ UNCHANGED documents
    /\ UNCHANGED backendVars
    /\ UNCHANGED nonRequestVars

NextRequests ==
    \/ RequestInitialize
    \/ RequestFilesChange
    \/ RequestWatchedFiles
    \/ RequestDidOpen
    \/ RequestDidChange
    \/ RequestDidClose
    \/ RequestHover
    \/ RequestCompletion
    \/ RequestGotoDefinition
    \/ RequestInlayHint

SpecRequests == InitRequests /\ [][NextRequests]_vars

(***************************************************************************)
(* SpecText: the prefix extraction of completion and the label text of     *)
(* inlay_hint, on the lines, cursors and translation values of requests    *)
(***************************************************************************)
InitText ==
    /\ completion_prefix = NoPrefixAsked
    /\ display_text = NoDisplayText
    /\ StoreIdle
    /\ FlatIdle
    /\ FinderIdle
    /\ DiagIdle
    /\ BackendIdle
    /\ PhpIdle
    /\ LocaleIdle
    /\ ConfigIdle
    /\ NewIdle
    /\ RequestIdle
    /\ RunIdle
    /\ LockIdle
    /\ ReloadIdle

\* one request is followed: no call has been made yet
NothingSliced == ~completion_prefix.done /\ ~display_text.done

\* completion: extract_completion_prefix(&line_content, position.character)
TextExtractPrefix ==
    /\ NothingSliced
    /\ \E line \in Lines, character \in 0..(2 * MaxLineChars + 1) :
          completion_prefix' = [done |-> TRUE, line |-> line, character |-> character,
                                outcome |-> ExtractCompletionPrefix(line, character)]
    /\ UNCHANGED display_text
    /\ UNCHANGED nonTextVars

\* inlay_hint of crates/intl-lens: truncate_string(&translation, 30)
TextTruncateString ==
    /\ NothingSliced
    /\ \E translation \in Values :
          display_text' = [done |-> TRUE, by |-> "truncate_string",
                           translation |-> translation,
                           outcome |-> Returns(TruncateString(translation, 30))]
    /\ UNCHANGED completion_prefix
    /\ UNCHANGED nonTextVars

\* inlay_hint of crates/i18n-lsp: the display text cut by byte index
TextDisplayText ==
    /\ NothingSliced
    /\ \E translation \in Values :
          display_text' = [done |-> TRUE, by |-> "byte slice",
                           translation |-> translation,
                           outcome |-> DisplayText(translation)]
    /\ UNCHANGED completion_prefix
    /\ UNCHANGED nonTextVars

NextText ==
    \/ TextExtractPrefix
    \/ TextTruncateString
    \/ TextDisplayText

SpecText == InitText /\ [][NextText]_vars

(***************************************************************************)
(* SpecPhpRun: parse_php runs on a content, one lexer call and one parser  *)
(* step at a time                                                          *)
(***************************************************************************)
InitPhpRun ==
    /\ RunIdle
    /\ StoreIdle
    /\ FlatIdle
    /\ FinderIdle
    /\ DiagIdle
    /\ BackendIdle
    /\ PhpIdle
    /\ LocaleIdle
    /\ ConfigIdle
    /\ NewIdle
    /\ RequestIdle
    /\ TextIdle
    /\ ReloadIdle
    /\ LockIdle

\* parse_php is called on a content: PhpParser::new, then parse_root_array
RunParsePhp ==
    /\ parser_at = "idle"
    /\ php_content' \in Contents
    /\ next_tokens' = [pos \in 0..Len(php_content') |-> LexerNextToken(php_content', pos)]
    /\ parser_at' = "root"
    /\ UNCHANGED <<lexer_pos, lookahead, end_reported, frames, lexed, outcome>>
    /\ UNCHANGED nonRunVars

Running == parser_at # "idle" /\ outcome = NoOutcome

\* peek_token has its answer: the lookahead, or the end the lexer reported
Peeked == lookahead # None \/ end_reported

\* PhpLexer::next_token, one call, made by peek_token on an empty lookahead:
\* what it does is a function of the content and of the position it is at
RunLexerCall ==
    /\ Running
    /\ ~Peeked
    /\ LET r == next_tokens[lexer_pos]
       IN /\ lexer_pos' = r.pos
          /\ lookahead' = IF r.again THEN None ELSE r.token
          /\ end_reported' = (~r.again /\ r.token = None)
          /\ lexed' = IF r.again \/ r.token = None THEN lexed ELSE Append(lexed, r.token[1])
    /\ UNCHANGED <<php_content, next_tokens, parser_at, frames, outcome>>
    /\ UNCHANGED nonRunVars

\* the parser goes on to `to` with the stack of activations `stack`; taken
\* says whether it took the token it peeked at
Goto(to, stack, taken) ==
    /\ parser_at' = to
    /\ frames' = stack
    /\ lookahead' = IF taken THEN Take(lookahead) ELSE lookahead
    /\ end_reported' = FALSE
    /\ outcome' = NoOutcome

\* an error leaves every activation through `?`; the token may be taken first
Fail(taken) ==
    /\ parser_at' = "returned"
    /\ frames' = <<>>
    /\ lookahead' = IF taken THEN Take(lookahead) ELSE lookahead
    /\ end_reported' = FALSE
    /\ outcome' = "error"

\* parse_array or parse_value returns Ok to the activation on top of stack,
\* or to parse_root_array when there is none
Return(stack, taken) ==
    IF stack = <<>>
    THEN /\ parser_at' = "returned"
         /\ frames' = <<>>
         /\ lookahead' = IF taken THEN Take(lookahead) ELSE lookahead
         /\ end_reported' = FALSE
         /\ outcome' = "mapping"
    ELSE IF Top(stack).stage = "key_or_value"
    THEN Goto("arrow", stack, taken)
    ELSE Goto("comma", stack, taken)

RunUnchanged == UNCHANGED <<php_content, next_tokens, lexer_pos, lexed>> /\ UNCHANGED nonRunVars

\* one iteration of the search loop of parse_root_array
RunRootSearch ==
    /\ Running /\ Peeked /\ parser_at = "root"
    /\ IF lookahead = None THEN Fail(FALSE)
       ELSE IF IsArrayStart(lookahead, 1) THEN Goto("array_start", frames, FALSE)
       ELSE Goto("root", frames, TRUE)
    /\ RunUnchanged

\* parse_array: the token of the array start
RunArrayStart ==
    /\ Running /\ Peeked /\ parser_at = "array_start"
    /\ IF lookahead = None THEN Fail(FALSE)
       ELSE IF lookahead[1] = LBracket
       THEN Goto("loop", Append(Took(frames), Frame("RBracket", "key_or_value", FALSE)), TRUE)
       ELSE IF lookahead[1] = IdentTok("array")
       THEN Goto("expect_lparen", Took(frames), TRUE)
       ELSE Fail(TRUE)
    /\ RunUnchanged

\* parse_array: expect_kind(LParen) after the word array
RunExpectLParen ==
    /\ Running /\ Peeked /\ parser_at = "expect_lparen"
    /\ IF lookahead # None /\ lookahead[1] = LParen
       THEN Goto("loop", Append(frames, Frame("RParen", "key_or_value", FALSE)), TRUE)
       ELSE Fail(FALSE)
    /\ RunUnchanged

\* parse_array, the head of an iteration of the item loop: the closing
\* token ends the array
RunLoopHead ==
    /\ Running /\ Peeked /\ parser_at = "loop"
    /\ IF lookahead # None /\ lookahead[1].kind = Top(frames).end_kind
       THEN Return(Pop(frames), TRUE)
       ELSE Goto("loop_is_none",
                 [frames EXCEPT ![Len(frames)] = Frame(@.end_kind, "key_or_value", FALSE)],
                 FALSE)
    /\ RunUnchanged

\* parse_array: `if self.peek_token().is_none() { break; }`
RunLoopIsNone ==
    /\ Running /\ Peeked /\ parser_at = "loop_is_none"
    /\ IF lookahead = None THEN Return(Pop(frames), FALSE)
       ELSE Goto("value", frames, FALSE)
    /\ RunUnchanged

\* parse_value
RunParseValue ==
    /\ Running /\ Peeked /\ parser_at = "value"
    /\ IF lookahead = None THEN Fail(FALSE)
       ELSE IF IsArrayStart(lookahead, 1) THEN Goto("array_start", frames, FALSE)
       ELSE IF lookahead[1].kind \in {"String", "Number", "Ident"}
       THEN Return(Took(frames), TRUE)
       ELSE Fail(TRUE)
    /\ RunUnchanged

\* parse_array: consume_kind(Arrow) after the key or value of an item
RunConsumeArrow ==
    /\ Running /\ Peeked /\ parser_at = "arrow"
    /\ IF lookahead # None /\ lookahead[1] = Arrow
       THEN Goto("value",
                 [frames EXCEPT ![Len(frames)] = Frame(@.end_kind, "value", TRUE)], TRUE)
       ELSE Goto("comma", frames, FALSE)
    /\ RunUnchanged

\* parse_array: consume_kind(Comma), the end of an iteration of the item loop
RunConsumeComma ==
    /\ Running /\ Peeked /\ parser_at = "comma"
    /\ IF lookahead # None /\ lookahead[1] = Comma
       THEN Goto("loop", Took(frames), TRUE)
       ELSE Goto("loop", frames, FALSE)
    /\ RunUnchanged

\* the steps of parse_php once it is called
RunStep ==
    \/ RunLexerCall
    \/ RunRootSearch
    \/ RunArrayStart
    \/ RunExpectLParen
    \/ RunLoopHead
    \/ RunLoopIsNone
    \/ RunParseValue
    \/ RunConsumeArrow
    \/ RunConsumeComma

NextPhpRun ==
    \/ RunParsePhp
    \/ RunStep

SpecPhpRun == InitPhpRun /\ [][NextPhpRun]_vars

\* parse_php is a synchronous function: the thread that called it keeps
\* running it until it returns
SpecPhpRunFair == SpecPhpRun /\ WF_vars(RunStep)

(***************************************************************************)
(* SpecLocks: initialize and up to MaxHandlers other handlers run          *)
(* concurrently, each from one lock operation to the next                  *)
(***************************************************************************)
NewTask(kind) == [kind |-> kind, at |-> 1, waiting |-> FALSE, held |-> {}, returned |-> FALSE]

InitLocks ==
    /\ rwlocks = [l \in RwLocks |-> FreeLock]
    /\ \E kinds \in [1..MaxHandlers -> 1..Len(HandlerKinds)] :
          /\ \A t \in 1..(MaxHandlers - 1) : kinds[t] <= kinds[t + 1]
          /\ tasks = [t \in Tasks |->
                        IF t = 0 THEN NewTask("initialize")
                        ELSE NewTask(HandlerKinds[kinds[t]])]
    /\ root_set = FALSE
    /\ StoreIdle
    /\ FlatIdle
    /\ FinderIdle
    /\ DiagIdle
    /\ BackendIdle
    /\ PhpIdle
    /\ LocaleIdle
    /\ ConfigIdle
    /\ NewIdle
    /\ RequestIdle
    /\ TextIdle
    /\ ReloadIdle
    /\ RunIdle

\* the handler has lock operations left
AtOperation(t) == ~tasks[t].returned /\ tasks[t].at <= Len(LocksOf(tasks[t].kind))

Operation(t) == LocksOf(tasks[t].kind)[tasks[t].at]

\* the task gets the lock of the operation it is at: a guard that lives for
\* one statement is dropped at once, and the write of the root sets it
LockTaken(t, l) ==
    LET o == Operation(t)
    IN /\ rwlocks' = [rwlocks EXCEPT ![o.lock] = IF o.op = "hold" THEN Granted(l, t, o.mode) ELSE l]
       /\ tasks' = [tasks EXCEPT ![t] = [@ EXCEPT !.at = @ + 1, !.waiting = FALSE,
                                                  !.held = IF o.op = "hold" THEN @ \cup {o.lock} ELSE @]]
       /\ root_set' = (root_set \/ (o.lock = "workspace_root" /\ o.mode = "write"))

\* lock.read().await / lock.write().await is reached: the lock is taken if
\* it is free for the mode and nobody waits, else the task waits in line
LockAsk(t) ==
    /\ AtOperation(t)
    /\ Operation(t).op \in {"hold", "touch"}
    /\ ~tasks[t].waiting
    /\ LET o == Operation(t)
           l == rwlocks[o.lock]
       IN IF l.queue = <<>> /\ Compatible(l, o.mode)
          THEN LockTaken(t, l)
          ELSE /\ rwlocks' = [rwlocks EXCEPT ![o.lock] = Waiting(l, t, o.mode)]
               /\ tasks' = [tasks EXCEPT ![t] = [@ EXCEPT !.waiting = TRUE]]
               /\ UNCHANGED root_set
    /\ UNCHANGED nonLockVars

\* the first task in line is served as soon as the lock is free for its mode
CanBeServed(t) ==
    /\ AtOperation(t)
    /\ tasks[t].waiting
    /\ LET l == rwlocks[Operation(t).lock]
       IN Head(l.queue).task = t /\ Compatible(l, Operation(t).mode)

LockServe(t) ==
    /\ CanBeServed(t)
    /\ LockTaken(t, Served(rwlocks[Operation(t).lock]))
    /\ UNCHANGED nonLockVars

\* the handler returns: every guard it holds is dropped
LockReturned(t) ==
    /\ rwlocks' = [l \in RwLocks |-> Dropped(rwlocks[l], t)]
    /\ tasks' = [tasks EXCEPT ![t] = [@ EXCEPT !.held = {}, !.returned = TRUE]]
    /\ UNCHANGED root_set

LockReturn(t) ==
    /\ ~tasks[t].returned
    /\ tasks[t].at > Len(LocksOf(tasks[t].kind))
    /\ LockReturned(t)
    /\ UNCHANGED nonLockVars

\* a return the data decides: the handler goes on, or returns early
LockMayReturn(t) ==
    /\ AtOperation(t)
    /\ Operation(t).op = "may_return"
    /\ \/ /\ tasks' = [tasks EXCEPT ![t] = [@ EXCEPT !.at = @ + 1]]
          /\ UNCHANGED <<rwlocks, root_set>>
       \/ LockReturned(t)
    /\ UNCHANGED nonLockVars

\* did_change_watched_files builds and writes a store only with a root
LockIfRoot(t) ==
    /\ AtOperation(t)
    /\ Operation(t).op = "if_root"
    /\ IF root_set
       THEN /\ tasks' = [tasks EXCEPT ![t] = [@ EXCEPT !.at = @ + 1]]
            /\ UNCHANGED <<rwlocks, root_set>>
       ELSE LockReturned(t)
    /\ UNCHANGED nonLockVars

LockStep(t) ==
    \/ LockAsk(t)
    \/ LockServe(t)
    \/ LockReturn(t)
    \/ LockMayReturn(t)
    \/ LockIfRoot(t)

NextLocks == \E t \in Tasks : LockStep(t)

SpecLocks == InitLocks /\ [][NextLocks]_vars

\* the runtime polls every task that can go on
SpecLocksFair == SpecLocks /\ \A t \in Tasks : WF_vars(LockStep(t))

(***************************************************************************)
(* SpecReloads: did_change_watched_files handlers that overlap, on a       *)
(* backend that initialize has left with a root and a store.  The client   *)
(* notifies every edit of the resource files, and up to MaxOverlap         *)
(* handlers run at a time, interleaved at their await points.              *)
(***************************************************************************)
MaxOverlap == 2

MaxEdits == 2

ReloadTasks == 1..MaxOverlap

InitReloads ==
    /\ files \in BackendDisks
    /\ files_seen = {files}
    /\ translation_store = SomeStore(ScanAndLoad(NewStore, files))
    /\ workspace_root = TRUE
    /\ pc = [r \in ReloadTasks |-> "idle"]
    /\ new_store = [r \in ReloadTasks |-> NewStore]
    /\ widx = 0
    /\ readers = NoReaders
    /\ doc = <<>>
    /\ published = NothingPublished
    /\ done = NothingDone
    /\ notified = 0
    /\ scans = <<>>
    /\ StoreIdle
    /\ FlatIdle
    /\ FinderIdle
    /\ DiagIdle
    /\ PhpIdle
    /\ LocaleIdle
    /\ ConfigIdle
    /\ NewIdle
    /\ RequestIdle
    /\ TextIdle
    /\ RunIdle
    /\ LockIdle

\* a resource file is edited, to a content the files never had, and the
\* client sends workspace/didChangeWatchedFiles for it
ReloadFilesChange ==
    /\ Cardinality(files_seen) <= MaxEdits
    /\ \E d \in BackendDisks \ files_seen :
          /\ files' = d
          /\ files_seen' = files_seen \cup {d}
    /\ notified' = notified + 1
    /\ UNCHANGED <<translation_store, workspace_root, pc, new_store, widx, readers,
                   doc, published, done, scans>>
    /\ UNCHANGED nonReloadVars

\* did_change_watched_files: a change of a .json file; workspace_root.read()
\* and config.read() are taken, the root is there, the local store is made
ReloadStart(r) ==
    /\ pc[r] = "idle"
    /\ notified > 0
    /\ notified' = notified - 1
    /\ readers' = Acquire(Acquire(readers, "workspace_root", r), "config", r)
    /\ new_store' = [new_store EXCEPT ![r] = WatchCreateStore(translation_store).store]
    /\ pc' = [pc EXCEPT ![r] = "scan"]
    /\ UNCHANGED <<files, files_seen, translation_store, workspace_root, widx, doc,
                   published, done, scans>>
    /\ UNCHANGED nonReloadVars

\* did_change_watched_files: store.scan_and_load, get_locales, get_all_keys,
\* up to the await of log_message
ReloadScanAndLoad(r) ==
    /\ pc[r] = "scan"
    /\ new_store' = [new_store EXCEPT ![r] = ScanAndLoad(@, files)]
    /\ scans' = Append(scans, [by |-> r, store |-> new_store'[r]])
    /\ pc' = [pc EXCEPT ![r] = "publish"]
    /\ UNCHANGED <<files, files_seen, translation_store, workspace_root, widx, readers,
                   doc, published, done, notified>>
    /\ UNCHANGED nonReloadVars

\* translation_store.write().await returns for the handler: no read guard
\* on translation_store is out; nothing orders the handlers that wait
ReloadCanWriteStore(r) == CanWrite(readers, "translation_store")

\* did_change_watched_files: *self.translation_store.write().await =
\* Some(store); the handler returns and its guards are dropped
ReloadWriteStore(r) ==
    /\ pc[r] = "publish"
    /\ ReloadCanWriteStore(r)
    /\ translation_store' = SomeStore(new_store[r])
    /\ new_store' = [new_store EXCEPT ![r] = NewStore]
    /\ readers' = Release(Release(readers, "config", r), "workspace_root", r)
    /\ pc' = [pc EXCEPT ![r] = "idle"]
    /\ UNCHANGED <<files, files_seen, workspace_root, widx, doc, published, done,
                   notified, scans>>
    /\ UNCHANGED nonReloadVars

NextReloads ==
    \/ ReloadFilesChange
    \/ \E r \in ReloadTasks : ReloadStart(r)
    \/ \E r \in ReloadTasks : ReloadScanAndLoad(r)
    \/ \E r \in ReloadTasks : ReloadWriteStore(r)

SpecReloads == InitReloads /\ [][NextReloads]_vars

(***************************************************************************)
(* Properties of the Translation Index (SpecStore)                         *)
(***************************************************************************)
Range(f) == { f[i] : i \in DOMAIN f }

\* the union of all locale maps' key sets
UnionOfKeys(t) == UNION { DOMAIN t[l] : l \in DOMAIN t }

\* C1: reload publishes the new index as one atomic replacement: a reader
\* that queries while a reload is in progress, the index having held keys
\* before it and the files being unchanged, gets the answers the index gave
\* before the reload, never those of an empty or partly filled index.
C1_ReloadPublishesAtomically ==
    (observed.during_reload /\ UnionOfKeys(before) # {})
        => observed = Observation(before, observed.key, TRUE)

\* C3: key_exists(K) is true iff at least one loaded locale's map contains
\* K; it is false when no locale is loaded.
C3_KeyExistsIffSomeLocaleHasKey ==
    \A key \in Keys :
        /\ KeyExists(store.translations, key) <=> key \in UnionOfKeys(store.translations)
        /\ DOMAIN store.translations = {} => ~KeyExists(store.translations, key)

\* a key that one loaded locale holds and the other lacks has been queried
C3_Witness ==
    /\ spc = "ready"
    /\ observed.exists
    /\ observed = Observation(store.translations, observed.key, FALSE)
    /\ DOMAIN store.translations = Locales
    /\ \E l \in Locales : observed.key \notin DOMAIN store.translations[l]
    /\ \E key \in Keys : ~KeyExists(store.translations, key)

\* C4: get_missing_locales(K) is exactly the set of loaded locales whose
\* map lacks K (each listed once): empty when every loaded locale has K,
\* all loaded locales when none has K, and key_exists(K) holds exactly when
\* it is strictly shorter than get_locales().
C4_MissingLocalesAreTheLocalesLackingKey ==
    \A key \in Keys :
        LET t == store.translations
            missing == GetMissingLocales(t, key)
        IN /\ Range(missing) = { l \in DOMAIN t : key \notin DOMAIN t[l] }
           /\ Cardinality(Range(missing)) = Len(missing)
           /\ (\A l \in DOMAIN t : key \in DOMAIN t[l]) => missing = <<>>
           /\ (\A l \in DOMAIN t : key \notin DOMAIN t[l])
                  => Range(missing) = Range(GetLocales(t))
           /\ KeyExists(t, key) <=> Len(missing) < Len(GetLocales(t))

\* a query answered with one missing locale out of two loaded ones
C4_Witness ==
    /\ spc = "ready"
    /\ Len(observed.locales) = 2
    /\ Len(observed.missing) = 1
    /\ observed = Observation(store.translations, observed.key, FALSE)

(***************************************************************************)
(* Properties of the Flattener (SpecFlatten)                               *)
(***************************************************************************)
\* the path segments joined with '.'
RECURSIVE JoinPath(_)
JoinPath(path) ==
    IF path = <<>> THEN ""
    ELSE IF Len(path) = 1 THEN path[1]
    ELSE path[1] \o "." \o JoinPath(Tail(path))

\* the non-null leaves of a value tree, each with its path from the root
\* and its string form
RECURSIVE NonNullLeaves(_, _)
NonNullLeaves(value, path) ==
    CASE value.tag = "Object" ->
            UNION { NonNullLeaves(value.map[k], Append(path, k)) : k \in DOMAIN value.map }
      [] value.tag = "Array" ->
            UNION { NonNullLeaves(value.items[i], Append(path, ToString(i - 1))) :
                        i \in DOMAIN value.items }
      [] value.tag = "String" -> { [path |-> path, text |-> value.s] }
      [] value.tag = "Number" -> { [path |-> path, text |-> ToString(value.n)] }
      [] value.tag = "Bool" -> { [path |-> path, text |-> IF value.b THEN "true" ELSE "false"] }
      [] value.tag = "Null" -> {}

\* C10: flattening yields exactly one entry per non-null leaf, keyed by the
\* leaf's path segments (object keys, 0-based array indices) joined with
\* '.', holding the leaf's string form; null leaves give no entry.
C10_FlattenOneEntryPerLeaf ==
    flat.done =>
        LET leaves == NonNullLeaves(tree, <<>>)
        IN /\ DOMAIN flat.map = { JoinPath(l.path) : l \in leaves }
           /\ Cardinality(DOMAIN flat.map) = Cardinality(leaves)
           /\ \A l \in leaves : flat.map[JoinPath(l.path)] = l.text

(***************************************************************************)
(* Properties of the Usage-Site Key Finder (SpecFinder)                    *)
(***************************************************************************)
\* every match of every pattern, as a set of [pattern index, found key]
MatchSet(pats, content) ==
    UNION { { [pattern |-> i, fk |-> CapturesIter(pats[i], content, 1)[j]] :
                j \in 1..Len(CapturesIter(pats[i], content, 1)) } :
            i \in 1..Len(pats) }

\* C8: find_keys returns the pooled matches of all patterns sorted by
\* strictly increasing start offset; every start offset some pattern matched
\* at is kept exactly once, and the entry kept there is the match of the
\* earliest pattern, in configured order, that matched at that offset.
C8_FindKeysSortedDedupedEarliestPatternWins ==
    found.done =>
        LET keys == found.keys
            all == MatchSet(patterns, text)
        IN /\ \A i \in 1..Len(keys) - 1 : keys[i].start_offset < keys[i + 1].start_offset
           /\ { k.start_offset : k \in Range(keys) } = { m.fk.start_offset : m \in all }
           /\ \A k \in Range(keys) :
                 \E m \in all :
                    /\ m.fk = k
                    /\ \A o \in all :
                          o.fk.start_offset = k.start_offset => m.pattern <= o.pattern

\* two patterns matched at one start offset with different captures, and the
\* earlier pattern's capture is the one entry kept
C8_Witness ==
    /\ found.done
    /\ \E m, o \in MatchSet(patterns, text) :
          /\ m.pattern < o.pattern
          /\ m.fk.start_offset = o.fk.start_offset
          /\ m.fk # o.fk
          /\ m.fk \in Range(found.keys)
    /\ Len(found.keys) >= 2

\* the byte offset at which line number line starts (the text's length + 1
\* when the text has fewer lines)
RECURSIVE LineStart(_, _, _)
LineStart(content, line, i) ==
    IF line = 0 THEN i
    ELSE IF i >= Len(content) THEN Len(content) + 1
    ELSE IF content[i + 1] = NL THEN LineStart(content, line - 1, i + 1)
    ELSE LineStart(content, line, i + 1)

\* position (line, character) lies in the quoted literal of found key k: on
\* the literal's line, between its opening and its closing quote
InsideLiteral(content, k, line, character) ==
    /\ line = k.line
    /\ LineStart(content, line, 0) + character >= k.start_offset
    /\ LineStart(content, line, 0) + character <= k.start_offset + Len(k.key)

\* C9: find_key_at_position returns the first entry of find_keys, in
\* ascending start-offset order, whose line is `line` and for which
\* start_char <= character <= end_char, and none when there is no such
\* entry; at a position outside every found key's quoted literal it returns
\* none.
C9_FindKeyAtPositionFirstInclusiveMatch ==
    at_position.asked =>
        LET keys == found.keys
            line == at_position.line
            character == at_position.character
            hit(i) == /\ keys[i].line = line
                      /\ keys[i].start_char <= character
                      /\ character <= keys[i].end_char
            hits == { i \in 1..Len(keys) : hit(i) }
        IN /\ hits = {} => at_position.result = <<>>
           /\ hits # {} =>
                 at_position.result = <<keys[CHOOSE i \in hits : \A j \in hits : i <= j]>>
           /\ (\A i \in 1..Len(keys) : ~InsideLiteral(text, keys[i], line, character))
                 => at_position.result = <<>>

\* a call at the closing quote of a key on the second line returned that
\* key, the first line holding a key too
C9_Witness ==
    /\ at_position.asked
    /\ at_position.result # <<>>
    /\ at_position.line = 1
    /\ at_position.character = at_position.result[1].end_char
    /\ Len(found.keys) = 2

(***************************************************************************)
(* Properties of the Diagnostics Classifier (SpecDiag)                     *)
(***************************************************************************)
\* the diagnostics computed for the range of found key fk
DiagnosticsAt(fk) == SelectSeq(diagnostics.list, LAMBDA d : d.range = KeyRange(fk))

\* the loaded locales, and those among them whose map lacks key
LoadedLocales == IF index.some THEN DOMAIN index.store.translations ELSE {}

LocalesLacking(key) == { l \in LoadedLocales : key \notin DOMAIN index.store.translations[l] }

\* the one diagnostic of fk is the missing-translation warning on fk's range
\* whose message names fk's key
IsMissingTranslation(fk) ==
    /\ Len(DiagnosticsAt(fk)) = 1
    /\ DiagnosticsAt(fk)[1].code = "missing-translation"
    /\ DiagnosticsAt(fk)[1].severity = "WARNING"
    /\ DiagnosticsAt(fk)[1].range.start = [line |-> fk.line, character |-> fk.start_char]
    /\ DiagnosticsAt(fk)[1].range.end = [line |-> fk.line, character |-> fk.end_char]
    /\ fk.key \in Range(DiagnosticsAt(fk)[1].message)

\* C5 as stated: every found key whose key is present in no loaded locale
\* gets exactly one diagnostic, the missing-translation warning on its range
\* naming the key.
C5_MissingKeyGetsOneWarning ==
    diagnostics.done =>
        \A i \in 1..Len(usage) :
            LocalesLacking(usage[i].key) = LoadedLocales => IsMissingTranslation(usage[i])

\* C5 as amended: the same, once the translation store is set (after an
\* initialize that carried a workspace root).
C5_MissingKeyGetsOneWarningWhenStoreSet ==
    (diagnostics.done /\ index.some) =>
        \A i \in 1..Len(usage) :
            LocalesLacking(usage[i].key) = LoadedLocales => IsMissingTranslation(usage[i])

\* a document using a key that none of two loaded locales has was diagnosed
C5_Witness ==
    /\ diagnostics.done
    /\ index.some
    /\ LoadedLocales = Locales
    /\ \E i \in 1..Len(usage) :
          /\ LocalesLacking(usage[i].key) = LoadedLocales
          /\ IsMissingTranslation(usage[i])

\* the locale codes listed in an incomplete-translation message
ListedLocales(message) == SelectSeq(SubSeq(message, 4, Len(message)), LAMBDA x : x # ", ")

\* C6: every found key whose key is present in at least one but not all
\* loaded locales gets exactly one diagnostic: incomplete-translation, HINT,
\* on the found key's range, its message listing precisely the loaded
\* locales that lack the key.
C6_PartialKeyGetsOneHintListingLackingLocales ==
    diagnostics.done =>
        \A i \in 1..Len(usage) :
            LET fk == usage[i]
                lacking == LocalesLacking(fk.key)
            IN (lacking # {} /\ lacking # LoadedLocales) =>
                  /\ Len(DiagnosticsAt(fk)) = 1
                  /\ DiagnosticsAt(fk)[1].code = "incomplete-translation"
                  /\ DiagnosticsAt(fk)[1].severity = "HINT"
                  /\ DiagnosticsAt(fk)[1].range = KeyRange(fk)
                  /\ DiagnosticsAt(fk)[1].message[2] = fk.key
                  /\ Range(ListedLocales(DiagnosticsAt(fk)[1].message)) = lacking
                  /\ Len(ListedLocales(DiagnosticsAt(fk)[1].message)) = Cardinality(lacking)

\* a key that one of two loaded locales lacks was diagnosed, next to a key
\* that every locale has
C6_Witness ==
    /\ diagnostics.done
    /\ LoadedLocales = Locales
    /\ \E i, j \in 1..Len(usage) :
          /\ Cardinality(LocalesLacking(usage[i].key)) = 1
          /\ LocalesLacking(usage[j].key) = {}
    /\ Len(diagnostics.list) = 1

\* C7: the classifier puts every found key in exactly one of missing,
\* incomplete, complete: each found key yields at most one diagnostic, of
\* code missing-translation or incomplete-translation, no diagnostic
\* belongs to no found key, and a found key whose key exists and is in all
\* loaded locales yields none.
C7_AtMostOneDiagnosticPerKeyNoneWhenComplete ==
    diagnostics.done =>
        /\ \A i \in 1..Len(usage) :
              /\ Len(DiagnosticsAt(usage[i])) <= 1
              /\ \A n \in 1..Len(DiagnosticsAt(usage[i])) :
                    DiagnosticsAt(usage[i])[n].code
                        \in {"missing-translation", "incomplete-translation"}
              /\ (LoadedLocales # {} /\ LocalesLacking(usage[i].key) = {})
                    => DiagnosticsAt(usage[i]) = <<>>
        /\ \A n \in 1..Len(diagnostics.list) :
              \E i \in 1..Len(usage) : diagnostics.list[n].range = KeyRange(usage[i])
        /\ Len(diagnostics.list) <= Len(usage)

\* a document with one key in all of two loaded locales and one key in none
\* was diagnosed: one diagnostic for two found keys
C7_Witness ==
    /\ diagnostics.done
    /\ LoadedLocales = Locales
    /\ Len(usage) = 2
    /\ LocalesLacking(usage[1].key) = {}
    /\ LocalesLacking(usage[2].key) = Locales
    /\ Len(diagnostics.list) = 1

(***************************************************************************)
(* Properties of the backend's reload (SpecBackend)                        *)
(***************************************************************************)
\* the complete indexes: what a whole scan gives for a content the resource
\* files had
CompleteIndexes == { ScanAndLoad(NewStore, d) : d \in files_seen }

\* the key a diagnostic's message names
NamedKey(diagnostic) == diagnostic.message[2]

\* C2: while a watched-files reload runs, a concurrent compute_diagnostics
\* sees the complete previous index or the complete new one, never an empty
\* or half-built one: the shared store is always unset or the result of a
\* whole scan, the published diagnostics are those of an unset store or of
\* a complete index, and no missing-translation diagnostic names a key that
\* every content of the resource files has.
C2_ReloadNeverShowsHalfBuiltIndex ==
    /\ translation_store.some => translation_store.store \in CompleteIndexes
    /\ published.done =>
          /\ \/ published.list = ComputeDiagnostics(published.doc, NoStore)
             \/ \E st \in CompleteIndexes :
                   published.list = ComputeDiagnostics(published.doc, SomeStore(st))
          /\ \A n \in 1..Len(published.list) :
                published.list[n].code = "missing-translation" =>
                    \E st \in CompleteIndexes :
                        NamedKey(published.list[n]) \notin UnionOfKeys(st.translations)

\* diagnostics were computed with the store set while a reload had loaded
\* one of the two unchanged files into its local store, for a document
\* using a key the files have: no diagnostic for it
C2_Witness ==
    /\ published.done
    /\ published.during = "scan"
    /\ published.loaded = 1
    /\ translation_store.some
    /\ files_seen = {files}
    /\ Len(published.doc) = 1
    /\ published.doc[1].key = "hello"
    /\ published.list = <<>>

(***************************************************************************)
(* Properties of the array-literal parser (SpecPhp)                        *)
(***************************************************************************)
\* C11: the flattener is format-independent: the array-literal parse and
\* flatten of the array-literal form of a value tree gives the same mapping
\* as the JSON parse and flatten of the tree.
C11_PhpFlattenEqualsJsonFlatten ==
    (php_result.done /\ php_source.kind = "json") =>
        /\ php_result.ok
        /\ php_result.map = ParseJson(php_source.json)

\* the bracket structure of the first array construct of a token stream,
\* read independently of the parser: "none" without an array start, "closed"
\* when every array opened is closed by its own closing token, "wrong" at a
\* closing token of the other kind, "missing" when the input ends with an
\* array still open
RECURSIVE Brackets(_, _, _)
Brackets(tokens, pos, open) ==
    IF pos > Len(tokens) THEN (IF open = <<>> THEN "none" ELSE "missing")
    ELSE IF tokens[pos].kind = "LBracket"
    THEN Brackets(tokens, pos + 1, <<"RBracket">> \o open)
    ELSE IF IsArrayStart(tokens, pos) /\ PeekKind(tokens, pos + 1) = "LParen"
    THEN Brackets(tokens, pos + 2, <<"RParen">> \o open)
    ELSE IF open # <<>> /\ tokens[pos].kind \in {"RBracket", "RParen"}
    THEN IF tokens[pos].kind # Head(open) THEN "wrong"
         ELSE IF Len(open) = 1 THEN "closed"
         ELSE Brackets(tokens, pos + 1, Tail(open))
    ELSE Brackets(tokens, pos + 1, open)

\* a `=>` inside the first array construct with no value after it
ArrowWithoutValue(tokens) ==
    \E i \in 1..Len(tokens) :
        /\ tokens[i].kind = "Arrow"
        /\ \E j \in 1..(i - 1) : IsArrayStart(tokens, j)
        /\ Brackets(SubSeq(tokens, 1, i), 1, <<>>) = "missing"
        /\ PeekKind(tokens, i + 1) \in {"None", "RBracket", "RParen", "Comma", "Arrow", "LParen"}

\* C12: parse_php returns a parse error whenever the input has no array
\* construct, or the construct has a closing token of the wrong kind, lacks
\* its closing token at the end of the input, or has a `=>` with no value
\* after it.
C12_MalformedArrayIsParseError ==
    php_result.done =>
        ((\/ \A i \in 1..Len(php_tokens) : ~IsArrayStart(php_tokens, i)
          \/ Brackets(php_tokens, 1, <<>>) = "wrong"
          \/ Brackets(php_tokens, 1, <<>>) = "missing"
          \/ ArrowWithoutValue(php_tokens))
            => ~php_result.ok)

\* the literal with, at every nesting level, only the last of the items
\* that share an explicit key
RECURSIVE KeepLast(_), KeepLastItems(_)
KeepLast(value) ==
    IF value.tag = "Array" THEN PArray(KeepLastItems(value.items)) ELSE value

KeepLastItems(items) ==
    IF items = <<>> THEN <<>>
    ELSE IF /\ Head(items).key # <<>>
            /\ \E j \in 2..Len(items) : items[j].key = Head(items).key
    THEN KeepLastItems(Tail(items))
    ELSE <<Item(Head(items).key, KeepLast(Head(items).entry))>> \o KeepLastItems(Tail(items))

\* C13: when an explicit key occurs more than once at one nesting level the
\* last occurrence wins: the flattened mapping is that of the literal with
\* only the last occurrence of each explicit key, scalar or nested array.
C13_LastDuplicateKeyWins ==
    (php_result.done /\ php_source.kind = "literal") =>
        /\ php_result.ok
        /\ php_result.map = FlattenPhp(KeepLast(php_source.literal), "", EmptyMap)

(***************************************************************************)
(* Properties of the locale inference (SpecLocale)                         *)
(***************************************************************************)
\* locale-code shape: two lowercase letters, optionally followed by '-' or
\* '_' and a two-letter region (both letters of one case)
HasLocaleShape(name) ==
    /\ name # NotUtf8
    /\ Len(name) \in {2, 5}
    /\ \A i \in 1..2 : name[i] \in {"e", "n"}
    /\ Len(name) = 5 =>
          /\ name[3] \in {"-", "_"}
          /\ \/ \A i \in 4..5 : name[i] \in {"e", "n"}
             \/ \A i \in 4..5 : name[i] \in {"N"}

\* C14: the locale of a file is its base name without extension when that
\* has locale-code shape, otherwise the parent directory's name when that
\* has locale-code shape, otherwise the file is skipped; the file name takes
\* precedence over the parent directory.
C14_LocaleFromStemThenParent ==
    inferred.done =>
        inferred.result =
            IF HasLocaleShape(res_path.stem) THEN Some(res_path.stem)
            ELSE IF HasLocaleShape(res_path.parent) THEN Some(res_path.parent)
            ELSE None

(***************************************************************************)
(* Properties of the scan (SpecStore)                                      *)
(***************************************************************************)
\* the files among the first n of the walk that have locale l and parsed
Loaded(d, n, l) == { i \in 1..n : d[i].locale = l /\ d[i].parsed.ok }

\* the last of them that defines key k
LastWith(d, n, l, k) ==
    CHOOSE i \in Loaded(d, n, l) :
        /\ k \in DOMAIN d[i].parsed.map
        /\ \A j \in Loaded(d, n, l) : k \in DOMAIN d[j].parsed.map => j <= i

\* the merge of the files among the first n that parsed successfully
MergeOfParsed(d, n) ==
    [l \in { l \in Locales : Loaded(d, n, l) # {} } |->
        [k \in UNION { DOMAIN d[i].parsed.map : i \in Loaded(d, n, l) } |->
            Entry(k, d[LastWith(d, n, l, k)].parsed.map[k], LastWith(d, n, l, k), l)]]

\* C15: a read or parse failure of one file never aborts the scan and
\* leaves the index as it was before that file: at every point of a scan
\* the index is the merge of the files handled so far that parsed, and
\* after the scan the merge of all files that parsed; a failing file adds
\* no locale, no entry and no file to a locale's list.
C15_FailingFileIsSkipped ==
    spc \in {"scan", "reload_scan", "ready"} =>
        /\ store.translations = MergeOfParsed(disk, sidx)
        /\ DOMAIN store.locale_files = DOMAIN store.translations
        /\ \A l \in DOMAIN store.locale_files :
              Range(store.locale_files[l]) = Loaded(disk, sidx, l)
        /\ spc = "ready" => sidx = Len(disk)

\* a scan is over whose first file, of locale fr, failed and whose second
\* file, of locale en, parsed: the index holds en only
C15_Witness ==
    /\ spc = "ready"
    /\ Len(disk) = 2
    /\ disk[1].locale = "fr" /\ ~disk[1].parsed.ok
    /\ disk[2].locale = "en" /\ disk[2].parsed.ok /\ disk[2].parsed.map # EmptyMap
    /\ DOMAIN store.translations = {"en"}
    /\ DOMAIN store.translations["en"] = DOMAIN disk[2].parsed.map

\* C16: loading a successfully parsed file of a locale makes that locale's
\* map the union of its keys with the file's, the entry (value, file_path)
\* of each of the file's keys coming from this file, the last processed,
\* and leaves the other entries and every other locale's map unchanged.
C16_SameLocaleFilesMergeLastWins ==
    [][(sidx' = sidx + 1 /\ disk[sidx'].locale # NoLocale /\ disk[sidx'].parsed.ok) =>
          LET file == disk[sidx']
              old == OrDefault(store.translations, file.locale, EmptyMap)
              new == store'.translations[file.locale]
          IN /\ DOMAIN store'.translations = DOMAIN store.translations \cup {file.locale}
             /\ \A l \in DOMAIN store.translations \ {file.locale} :
                   store'.translations[l] = store.translations[l]
             /\ DOMAIN new = DOMAIN old \cup DOMAIN file.parsed.map
             /\ \A k \in DOMAIN file.parsed.map :
                   /\ new[k].value = file.parsed.map[k]
                   /\ new[k].file_path = sidx'
             /\ \A k \in DOMAIN old \ DOMAIN file.parsed.map : new[k] = old[k]
      ]_vars

\* two files of locale en were loaded, the second redefining the key hello
\* of the first: hello is the second file's, bye still the first's
C16_Witness ==
    /\ spc = "ready"
    /\ Len(disk) = 2
    /\ disk[1].locale = "en" /\ disk[1].parsed.ok
    /\ disk[2].locale = "en" /\ disk[2].parsed.ok
    /\ DOMAIN disk[1].parsed.map = {"hello", "bye"}
    /\ DOMAIN disk[2].parsed.map = {"hello"}
    /\ store.translations["en"]["hello"].value = disk[2].parsed.map["hello"]
    /\ store.translations["en"]["hello"].value # disk[1].parsed.map["hello"]
    /\ store.translations["en"]["hello"].file_path = 2
    /\ store.translations["en"]["bye"].file_path = 1

(***************************************************************************)
(* Properties of configuration loading (SpecConfig)                        *)
(***************************************************************************)
\* the candidates that can be read and parsed
Usable == { i \in 1..Len(cfg_files) : cfg_files[i].read /\ cfg_files[i].parses }

\* the first of them in the fixed order, 0 when there is none
FirstUsable == IF Usable = {} THEN 0 ELSE CHOOSE i \in Usable : \A j \in Usable : i <= j

\* C17: the candidates are tried in the order .i18n-ally.json,
\* i18n-ally.config.json, .zed/i18n.json and the configuration is that of
\* the first one that can be read and parsed, a missing or unparsable one
\* falling through to the next; when none parses the default is used.
C17_FirstParseableConfigWins ==
    loaded.done =>
        /\ config_paths = <<".i18n-ally.json", "i18n-ally.config.json", ".zed/i18n.json">>
        /\ loaded.from = FirstUsable
        /\ FirstUsable # 0 =>
              /\ loaded.config.source_locale =
                    (IF "sourceLocale" \in cfg_files[FirstUsable].keys
                     THEN cfg_files[FirstUsable].sourceLocale ELSE "en")
              /\ "localePaths" \in cfg_files[FirstUsable].keys =>
                    loaded.config.locale_paths = cfg_files[FirstUsable].localePaths
        /\ FirstUsable = 0 =>
              /\ loaded.config.source_locale = "en"
              /\ SubSeq(loaded.config.locale_paths, 1, Len(default_locale_paths))
                    = default_locale_paths

\* the first candidate is missing, the second does not parse, the third
\* sets sourceLocale: the configuration is the third's
C17_Witness ==
    /\ loaded.done
    /\ ~cfg_files[1].read
    /\ cfg_files[2].read /\ ~cfg_files[2].parses
    /\ cfg_files[3].parses /\ cfg_files[3].sourceLocale = "de"
    /\ loaded.from = 3
    /\ loaded.config.source_locale = "de"

\* the detected directories: those of the declared frameworks that exist
DetectedSet ==
    { dir \in workspace.exists :
        \/ "angular" \in workspace.frameworks /\ dir = "src/assets/i18n"
        \/ "laravel" \in workspace.frameworks /\ dir \in {"resources/lang", "lang"}
        \/ "flutter" \in workspace.frameworks
              /\ dir \in Range(workspace.arb_dir)
                     \cup {"lib/l10n", "assets/translations", "assets/flutter_i18n",
                           "assets/i18n"}
        \/ "vue" \in workspace.frameworks
              /\ dir \in {"src/locales", "src/i18n", "locales", "i18n", "public/locales"} }

\* C18: the locale path list is augmented if and only if the chosen
\* configuration does not give localePaths (or no file is used); then the
\* list is the default list followed, each once, by the detected existing
\* directories it lacks; a configuration that gives localePaths is used
\* exactly as written.
C18_AugmentedIffLocalePathsNotGiven ==
    loaded.done =>
        LET gives == FirstUsable # 0 /\ "localePaths" \in cfg_files[FirstUsable].keys
            base == IF gives THEN cfg_files[FirstUsable].localePaths
                    ELSE default_locale_paths
            added == SubSeq(loaded.config.locale_paths, Len(base) + 1,
                            Len(loaded.config.locale_paths))
        IN /\ SubSeq(loaded.config.locale_paths, 1, Len(base)) = base
           /\ gives => added = <<>>
           /\ ~gives =>
                 /\ Range(added) = DetectedSet \ Range(base)
                 /\ Cardinality(Range(added)) = Len(added)

(***************************************************************************)
(* Properties of the key finder's construction (SpecNew)                   *)
(***************************************************************************)
\* the positions of the configured strings that are regular expressions
ValidPositions == { i \in 1..Len(configured) : configured[i] \in {"t(", "$t(", "t(seg"} }

\* the n-th smallest element of a set of numbers
RECURSIVE Nth(_, _)
Nth(S, n) ==
    LET least == CHOOSE x \in S : \A y \in S : x <= y
    IN IF n = 1 THEN least ELSE Nth(S \ {least}, n - 1)

\* C19: KeyFinder::new never fails on an invalid pattern string: the
\* compiled set is exactly the valid patterns, in their configured order.
C19_InvalidPatternsAreDropped ==
    compiled.done =>
        /\ Len(compiled.patterns) = Cardinality(ValidPositions)
        /\ \A n \in 1..Len(compiled.patterns) :
              compiled.patterns[n] = RegexNew(configured[Nth(ValidPositions, n)])[1]

\* a finder was built from a valid, an invalid and another valid pattern
\* string: it holds the two valid patterns in that order
C19_Witness ==
    /\ compiled.done
    /\ configured = <<"$t(", "(", "t(">>
    /\ compiled.patterns = <<PatternDollarT, PatternT>>

ResourceExtensions == {".json", ".yaml", ".yml", ".php"}

HasResourceExtension(changes) ==
    \E change \in changes, extension \in ResourceExtensions : EndsWith(change, extension)

\* C21: with the workspace root set, a file-change notification reloads the
\* index (the published store becomes the scan of the files as they are)
\* if and only if a changed file has a resource-file extension; otherwise
\* the published store is left as it was.
C21_ReloadIffResourceExtensionChanged ==
    [][(reply'.handler = "watched_files" /\ workspace_root) =>
          IF HasResourceExtension(reply'.result[1])
          THEN translation_store' = SomeStore(ScanAndLoad(NewStore, files'))
          ELSE translation_store' = translation_store]_vars

\* a go-to-definition request has called get_translation_location
LocationAsked == reply.handler = "goto_definition" /\ "location" \in DOMAIN reply

\* the source locale holds the key of the call
LocaleHoldsKey ==
    /\ default_source_locale \in DOMAIN translation_store.store.translations
    /\ reply.key \in DOMAIN translation_store.store.translations[default_source_locale]

\* C22: get_translation_location returns no location when the line search
\* of the defining file finds no matching line or cannot read the file, and
\* when the locale does not hold the key.
C22_NoLocationWhenLineSearchFails ==
    (LocationAsked /\ (reply.line_found = None \/ ~LocaleHoldsKey)) =>
        reply.location = None

(***************************************************************************)
(* Properties of the string slicing (SpecText)                             *)
(***************************************************************************)
\* C23: no request can crash the engine: for every line and cursor offset
\* the completion prefix extraction returns a prefix or no prefix, and the
\* inlay-hint text truncation returns a string for every translation value;
\* neither panics.
C23_NoRequestPanics ==
    /\ completion_prefix.done => ~completion_prefix.outcome.panic
    /\ display_text.done => ~display_text.outcome.panic

(***************************************************************************)
(* Properties of the found keys' spans (SpecFinder)                        *)
(***************************************************************************)
\* the number of line breaks of content before byte offset offset
LineBreaksBefore(content, offset) ==
    Cardinality({ i \in 1..Len(content) : i <= offset /\ content[i] = NL })

\* the text of line number line of content, without its line break
LineText(content, line) ==
    LET from == LineStart(content, line, 0) + 1
        upto == RunEnd(content, from, {NL}) - 1
    IN SubSeq(content, from, upto)

\* the span of found key k is its exact text range within one line
ExactSpan(content, k) ==
    /\ k.line = LineBreaksBefore(content, k.start_offset)
    /\ k.start_char = k.start_offset - LineStart(content, k.line, 0)
    /\ k.end_char <= Len(LineText(content, k.line))
    /\ SubSeq(LineText(content, k.line), k.start_char + 1, k.end_char) = k.key

\* C24: every found key's span is its exact text range within one line:
\* line counts the line breaks before the key, start_char is its offset in
\* that line, and the line's text from start_char to end_char is the key.
C24_FoundKeySpanIsExactRangeInLine ==
    found.done => \A n \in 1..Len(found.keys) : ExactSpan(text, found.keys[n])

(***************************************************************************)
(* Further properties of the array-literal parser (SpecPhp)                *)
(***************************************************************************)
\* an array-literal construct starts at position pos: `[`, or `array` `(`
IsConstructStart(tokens, pos) ==
    \/ tokens[pos] = LBracket
    \/ /\ tokens[pos] = IdentTok("array")
       /\ pos < Len(tokens)
       /\ tokens[pos + 1] = LParen

ConstructStarts(tokens) == { pos \in 1..Len(tokens) : IsConstructStart(tokens, pos) }

FirstConstruct(tokens) ==
    CHOOSE pos \in ConstructStarts(tokens) : \A q \in ConstructStarts(tokens) : pos <= q

\* what parse_php returns when its parser returns r
ResultOf(r) ==
    IF r.ok
    THEN [done |-> TRUE, ok |-> TRUE, map |-> FlattenPhp(r.value, "", EmptyMap)]
    ELSE [done |-> TRUE, ok |-> FALSE, map |-> EmptyMap]

\* C25: parse_php locates the first array-literal construct, `[` or
\* `array(`: the tokens before it are skipped without an error, the array
\* starting there is what is parsed, and what follows its closing token is
\* ignored.
C25_FirstArrayConstructIsParsed ==
    (php_result.done /\ ConstructStarts(php_tokens) # {}) =>
        LET r == ParseArray(php_tokens, FirstConstruct(php_tokens))
        IN /\ php_result = ResultOf(r)
           /\ r.ok => php_result = ParsePhp(SubSeq(php_tokens, 1, r.pos - 1))

(***************************************************************************)
(* Properties of the keys of the mappings (SpecFlatten)                    *)
(***************************************************************************)
\* C26: no parser stores an entry under the empty-string key:
\* every key of the mapping parse_json / parse_yaml returns, and of the one
\* parse_php returns, is non-empty.
C26_NoEmptyKey ==
    flat.done =>
        /\ "" \notin DOMAIN flat.map
        /\ "" \notin DOMAIN flat.php.map

(***************************************************************************)
(* Properties of a run of parse_php (SpecPhpRunFair)                       *)
(***************************************************************************)
\* a token was consumed: the lookahead held one and was emptied
TokenTaken == lookahead # None /\ lookahead' = None

\* C27: parse_php, once called, terminates on every finite input with a mapping or an
\* error: each lexer call consumes at least one character or reports the
\* end of the input, each iteration of the search loop of parse_root_array
\* and of the item loop of parse_array consumes at least one token or
\* exits, and the run ends with one of the two outcomes, which is the one
\* the parser gives on the tokens lexed.
C27_ParsePhpTerminates ==
    /\ [][(RunLexerCall => lexer_pos' > lexer_pos \/ end_reported')
          /\ (RunRootSearch /\ parser_at' = "root" => TokenTaken)
          /\ (RunConsumeComma => Top(frames').took)]_vars
    /\ [](outcome \in {NoOutcome, "mapping", "error"})
    /\ [](outcome # NoOutcome => (outcome = "mapping") = ParsePhp(lexed).ok)
    /\ (parser_at = "root") ~> (outcome # NoOutcome)

\* a run that skipped characters no token starts with, went twice through
\* the item loop of a nested array, and returned a mapping
C27_Witness ==
    /\ php_content = <<"$", "a", " ", "=", " ", "[", "'", "a", "'", "=", ">", "[", "a", ",", "]", ",", "]", ";">>
    /\ outcome = "mapping"
    /\ Len(lexed) = 10
    /\ lexer_pos = 17

(***************************************************************************)
(* Properties of the locking of the handlers (SpecLocksFair)               *)
(***************************************************************************)
\* the task waits and cannot be served as things are
Blocked(t) == ~tasks[t].returned /\ tasks[t].waiting /\ ~CanBeServed(t)

AllReturned == \A t \in Tasks : tasks[t].returned

\* C28: no interleaving of the handlers running alongside one initialize
\* deadlocks on the read-write locks, even with waiting writers served
\* before later readers: as long as a handler has not returned some handler
\* can go on, and in the end every handler has got its locks, has returned
\* and has left every lock free.
C28_HandlersNeverDeadlock ==
    /\ []((~AllReturned) => \E t \in Tasks : ~tasks[t].returned /\ ~Blocked(t))
    /\ <>(AllReturned /\ \A l \in RwLocks : rwlocks[l] = FreeLock)

\* did_change_watched_files holds config for reading, initialize waits to
\* write it, and a query that already holds translation_store waits for
\* config behind initialize
C28_Witness ==
    /\ rwlocks["config"].readers # {}
    /\ Len(rwlocks["config"].queue) = 2
    /\ rwlocks["config"].queue[1] = [task |-> 0, mode |-> "write"]
    /\ rwlocks["config"].queue[2].mode = "read"
    /\ \E t \in Tasks : "translation_store" \in tasks[t].held

(***************************************************************************)
(* Properties of overlapping reloads (SpecReloads)                         *)
(***************************************************************************)
\* every notification has been handled and no reload is running
ReloadsFinished == notified = 0 /\ \A r \in ReloadTasks : pc[r] = "idle"

\* C29: when file-change reloads overlap, the index left published once all
\* of them have finished is the one built by the reload that scanned the
\* files last, and so reflects the final state of the files.
C29_LastScanIsPublished ==
    (ReloadsFinished /\ scans # <<>>) =>
        /\ translation_store = SomeStore(scans[Len(scans)].store)
        /\ translation_store = SomeStore(ScanAndLoad(NewStore, files))

(***************************************************************************)
(* Properties of the root and the store of the backend (SpecBackend)       *)
(***************************************************************************)
\* C30: in every reachable state of the backend the workspace root is set
\* only if the translation store is set; once set, the store is never reset
\* to absent by any step; and so a reload that writes its store, having
\* found a root, replaces an existing store.
C30_RootOnlyWithStoreAndStoreStays ==
    /\ [](workspace_root => translation_store.some)
    /\ [][(translation_store.some => translation_store'.some)
          /\ (WatchedFilesWriteStore => translation_store.some)]_vars

\* a reload that found the root has built its store and is about to put it
\* in the place of the store initialize left, which differs
C30_Witness ==
    /\ pc["watched_files"] = "publish"
    /\ workspace_root
    /\ translation_store.some
    /\ translation_store.store # new_store["watched_files"]

====
